---- MODULE Spec2Model ----
(***************************************************************************)
(* A model of the poppi launcher: the query router                         *)
(* (LauncherState::update_query and the entry's "changed" handler), the    *)
(* ranked searches over applications, emoji and open windows, and the      *)
(* window enumeration chain.  Query strings are TLA+ strings; the fuzzy    *)
(* scorer (SkimMatcherV2, an external crate) is a table the model draws    *)
(* once and never changes.                                                 *)
(***************************************************************************)
EXTENDS Integers, Sequences, FiniteSets, TLC

(***************************************************************************)
(* Strings (str::trim, starts_with, strip_prefix, contains, to_lowercase)  *)
(***************************************************************************)
\* the i-th character of s, "" outside it
CharAt(s, i) == IF 1 <= i /\ i <= Len(s) THEN SubSeq(s, i, i) ELSE ""

StartsWith(s, p) == Len(s) >= Len(p) /\ SubSeq(s, 1, Len(p)) = p

\* s with the prefix p removed; the caller has checked StartsWith(s, p)
StripPrefix(s, p) == SubSeq(s, Len(p) + 1, Len(s))

IsWhitespace(c) == c = " "

RECURSIVE TrimStart(_)
TrimStart(s) ==
    IF Len(s) > 0 /\ IsWhitespace(CharAt(s, 1))
    THEN TrimStart(SubSeq(s, 2, Len(s)))
    ELSE s

RECURSIVE TrimEnd(_)
TrimEnd(s) ==
    IF Len(s) > 0 /\ IsWhitespace(CharAt(s, Len(s)))
    THEN TrimEnd(SubSeq(s, 1, Len(s) - 1))
    ELSE s

Trim(s) == TrimEnd(TrimStart(s))

\* some character of s satisfies: it occurs in the string chars
AnyCharIn(s, chars) ==
    \E i \in 1..Len(s) : \E j \in 1..Len(chars) : CharAt(s, i) = CharAt(chars, j)

\* s contains sub as a contiguous substring (str::contains)
Contains(s, sub) ==
    \E i \in 1..(Len(s) - Len(sub) + 1) : SubSeq(s, i, i + Len(sub) - 1) = sub

LowerLetters == "abcdefghijklmnopqrstuvwxyz"
UpperLetters == "ABCDEFGHIJKLMNOPQRSTUVWXYZ"
Digits == "0123456789"

\* position of the character c in the string chars, 0 when it is absent
IndexIn(c, chars) ==
    IF \E j \in 1..Len(chars) : CharAt(chars, j) = c
    THEN CHOOSE j \in 1..Len(chars) : CharAt(chars, j) = c
    ELSE 0

\* char::to_lowercase on the ASCII letters, as a table
LowerTable ==
    [c \in {CharAt(UpperLetters, j) : j \in 1..Len(UpperLetters)} |->
        CharAt(LowerLetters, IndexIn(c, UpperLetters))] @@ <<>>

LowerChar(c) ==
    IF c \in DOMAIN LowerTable THEN LowerTable[c] ELSE c

RECURSIVE ToLowercase(_)
ToLowercase(s) ==
    IF Len(s) = 0 THEN s
    ELSE LowerChar(CharAt(s, 1)) \o ToLowercase(SubSeq(s, 2, Len(s)))

\* the order of str::cmp on the model's alphabet (byte order of ASCII)
AsciiOrder == " $()*+-./0123456789:>ABCDEFGHIJKLMNOPQRSTUVWXYZ^abcdefghijklmnopqrstuvwxyz"

RECURSIVE StrLeq(_, _)
StrLeq(a, b) ==
    IF Len(a) = 0 THEN TRUE
    ELSE IF Len(b) = 0 THEN FALSE
    ELSE IF CharAt(a, 1) = CharAt(b, 1)
         THEN StrLeq(SubSeq(a, 2, Len(a)), SubSeq(b, 2, Len(b)))
         ELSE IndexIn(CharAt(a, 1), AsciiOrder) < IndexIn(CharAt(b, 1), AsciiOrder)

\* the first whitespace-delimited token of s (split_whitespace().next()), "" if none
RECURSIVE TakeToken(_)
TakeToken(s) ==
    IF Len(s) = 0 \/ IsWhitespace(CharAt(s, 1)) THEN ""
    ELSE CharAt(s, 1) \o TakeToken(SubSeq(s, 2, Len(s)))

FirstWord(s) == TakeToken(TrimStart(s))

\* Option<T>: None is the empty set, Some(v) the singleton
None == {}
Some(v) == {v}
UnwrapOr(o, d) == IF o = {} THEN d ELSE CHOOSE v \in o : TRUE
Max(a, b) == IF a >= b THEN a ELSE b
Min(a, b) == IF a <= b THEN a ELSE b

(***************************************************************************)
(* Calculator (src/calculator.rs).  meval is an external crate: eval_str   *)
(* is modelled on the alphabet of digits, '.', + - * /, parentheses and    *)
(* spaces, with exact rationals for f64; any identifier is an unbound      *)
(* variable, which meval reports as an error.  A value with d = 0 is       *)
(* non-finite (n > 0: inf, n < 0: -inf, n = 0: NaN).                       *)
(***************************************************************************)
IsAsciiDigit(c) == IndexIn(c, Digits) > 0
DigitValue(c) == IndexIn(c, Digits) - 1

RECURSIVE DigitRun(_, _)
DigitRun(s, i) ==
    IF i <= Len(s) /\ IsAsciiDigit(CharAt(s, i)) THEN 1 + DigitRun(s, i + 1) ELSE 0

\* str::parse::<f64>().is_ok()
ParsesAsF64(s) ==
    LET b == IF Len(s) > 0 /\ CharAt(s, 1) \in {"+", "-"} THEN 2 ELSE 1
        ip == DigitRun(s, b)
        dot == b + ip <= Len(s) /\ CharAt(s, b + ip) = "."
        fp == IF dot THEN DigitRun(s, b + ip + 1) ELSE 0
        m == b + ip + (IF dot THEN 1 + fp ELSE 0)
        hasExp == m <= Len(s) /\ CharAt(s, m) \in {"e", "E"}
        es == IF hasExp /\ m + 1 <= Len(s) /\ CharAt(s, m + 1) \in {"+", "-"}
              THEN m + 2 ELSE m + 1
        ed == IF hasExp THEN DigitRun(s, es) ELSE 0
        end == IF hasExp THEN es + ed ELSE m
        body == ToLowercase(SubSeq(s, b, Len(s)))
    IN  \/ body \in {"inf", "infinity", "nan"}
        \/ ip + fp > 0 /\ (hasExp => ed > 0) /\ end = Len(s) + 1

CalcOperators == "+-*/×÷xX^()"

is_calculation(query) ==
    LET has_number == AnyCharIn(query, Digits)
        has_operator == AnyCharIn(query, CalcOperators)
    IN  has_number /\ (has_operator \/ ParsesAsF64(Trim(query)))

RECURSIVE ReplaceLowerGlyphs(_)
\* a variant that leaves the capital X alone
ReplaceLowerGlyphs(s) ==
    IF Len(s) = 0 THEN s
    ELSE LET c == CharAt(s, 1)
             r == IF c = "×" THEN "*"
                  ELSE IF c = "÷" THEN "/"
                  ELSE IF c = "x" THEN "*"
                  ELSE c
         IN  r \o ReplaceLowerGlyphs(SubSeq(s, 2, Len(s)))

RECURSIVE ReplaceGlyphs(_)
\* the replace calls of Calculator::evaluate
ReplaceGlyphs(s) ==
    IF Len(s) = 0 THEN s
    ELSE LET c == CharAt(s, 1)
             r == IF c = "×" THEN "*"
                  ELSE IF c = "÷" THEN "/"
                  ELSE IF c \in {"x", "X"} THEN "*"
                  ELSE c
         IN  r \o ReplaceGlyphs(SubSeq(s, 2, Len(s)))

Abs(n) == IF n < 0 THEN -n ELSE n

RECURSIVE Gcd(_, _)
Gcd(a, b) == IF b = 0 THEN a ELSE Gcd(b, a % b)

\* the rational n/d in lowest terms with d > 0; d = 0 keeps only the sign of n
Rat(n, d) ==
    IF d = 0 THEN [n |-> IF n > 0 THEN 1 ELSE IF n < 0 THEN -1 ELSE 0, d |-> 0]
    ELSE LET g == Gcd(Abs(n), Abs(d))
             sgn == IF d < 0 THEN -1 ELSE 1
         IN  [n |-> sgn * (n \div g), d |-> sgn * (d \div g)]

RatAdd(a, b) == IF a.d = 0 THEN a ELSE IF b.d = 0 THEN b
                ELSE Rat(a.n * b.d + b.n * a.d, a.d * b.d)
RatNeg(a) == [n |-> -a.n, d |-> a.d]
RatMul(a, b) == Rat(a.n * b.n, a.d * b.d)
RatDiv(a, b) == IF b.d = 0 THEN Rat(0, 1) ELSE Rat(a.n * b.d, a.d * b.n)

RECURSIVE SkipSpaces(_, _)
SkipSpaces(s, i) ==
    IF i <= Len(s) /\ IsWhitespace(CharAt(s, i)) THEN SkipSpaces(s, i + 1) ELSE i

RECURSIVE DigitsValue(_, _, _)
\* the value of the k digits of s that start at position i
DigitsValue(s, i, k) ==
    IF k = 0 THEN 0
    ELSE DigitsValue(s, i, k - 1) * 10 + DigitValue(CharAt(s, i + k - 1))

RECURSIVE Pow10(_)
Pow10(k) == IF k = 0 THEN 1 ELSE 10 * Pow10(k - 1)

ParseFailure == [ok |-> FALSE, v |-> Rat(0, 1), pos |-> 0]
Parsed(v, pos) == [ok |-> TRUE, v |-> v, pos |-> pos]

\* a number literal at position i: digits, then optionally '.' and digits
ParseNumber(s, i) ==
    LET ip == DigitRun(s, i)
        fp == IF i + ip <= Len(s) /\ CharAt(s, i + ip) = "." THEN DigitRun(s, i + ip + 1) ELSE 0
    IN  IF ip = 0 THEN ParseFailure
        ELSE IF fp = 0 THEN Parsed(Rat(DigitsValue(s, i, ip), 1), i + ip)
        ELSE Parsed(RatAdd(Rat(DigitsValue(s, i, ip), 1),
                           Rat(DigitsValue(s, i + ip + 1, fp), Pow10(fp))),
                    i + ip + 1 + fp)

RECURSIVE ParseExpr(_, _), ExprRest(_, _), ParseTerm(_, _), TermRest(_, _), ParseUnary(_, _)
RECURSIVE TermStep(_, _, _, _), ExprStep(_, _, _, _)

\* unary := '-' unary | '+' unary | number | '(' expr ')'
Negated(u) == IF u.ok THEN Parsed(RatNeg(u.v), u.pos) ELSE ParseFailure

\* the parenthesised expression e, which must be followed by ')'
Closed(s, e) ==
    IF e.ok /\ CharAt(s, SkipSpaces(s, e.pos)) = ")"
    THEN Parsed(e.v, SkipSpaces(s, e.pos) + 1)
    ELSE ParseFailure

ParseUnary(s, i) ==
    LET j == SkipSpaces(s, i)
        c == CharAt(s, j)
    IN  IF c = "-" THEN Negated(ParseUnary(s, j + 1))
        ELSE IF c = "+" THEN ParseUnary(s, j + 1)
        ELSE IF c = "(" THEN Closed(s, ParseExpr(s, j + 1))
        ELSE ParseNumber(s, j)

\* left (op) u, for the operator character c
Applied(c, left, u) ==
    Parsed(IF c = "*" THEN RatMul(left.v, u.v)
           ELSE IF c = "/" THEN RatDiv(left.v, u.v)
           ELSE IF c = "+" THEN RatAdd(left.v, u.v)
           ELSE RatAdd(left.v, RatNeg(u.v)), u.pos)

\* the rest of a term after the left operand `left`: { ('*' | '/') unary }
TermStep(s, c, left, u) ==
    IF ~u.ok THEN ParseFailure ELSE TermRest(s, Applied(c, left, u))

TermRest(s, left) ==
    LET j == SkipSpaces(s, left.pos)
        c == CharAt(s, j)
    IN  IF c \in {"*", "/"} THEN TermStep(s, c, left, ParseUnary(s, j + 1)) ELSE left

TermFrom(s, u) == IF u.ok THEN TermRest(s, u) ELSE ParseFailure

ParseTerm(s, i) == TermFrom(s, ParseUnary(s, i))

\* the rest of an expression after the left operand: { ('+' | '-') term }
ExprStep(s, c, left, t) ==
    IF ~t.ok THEN ParseFailure ELSE ExprRest(s, Applied(c, left, t))

ExprRest(s, left) ==
    LET j == SkipSpaces(s, left.pos)
        c == CharAt(s, j)
    IN  IF c \in {"+", "-"} THEN ExprStep(s, c, left, ParseTerm(s, j + 1)) ELSE left

ExprFrom(s, t) == IF t.ok THEN ExprRest(s, t) ELSE ParseFailure

ParseExpr(s, i) == ExprFrom(s, ParseTerm(s, i))

\* the value of the parse e of s, which must have consumed the whole text
WholeText(s, e) ==
    IF e.ok /\ SkipSpaces(s, e.pos) = Len(s) + 1
    THEN [ok |-> TRUE, v |-> e.v]
    ELSE [ok |-> FALSE, v |-> Rat(0, 1)]

\* meval::eval_str: Ok(value) when the whole text is one expression, Err otherwise
eval_str(s) == WholeText(s, ParseExpr(s, 1))

\* Calculator::evaluate
evaluate(expression) == eval_str(ReplaceGlyphs(expression))

FormatPrecision == 10

RECURSIVE FracDigits(_, _, _)
\* the first k decimals of r/d (0 <= r < d), as digit values
FracDigits(r, d, k) ==
    IF k = 0 THEN <<>>
    ELSE <<(r * 10) \div d>> \o FracDigits((r * 10) % d, d, k - 1)

RECURSIVE FracRemainder(_, _, _)
FracRemainder(r, d, k) == IF k = 0 THEN r ELSE FracRemainder((r * 10) % d, d, k - 1)

RECURSIVE IncDigits(_)
\* the digit string plus one in its last place, and the carry out of its first
IncDigits(ds) ==
    IF ds = <<>> THEN [digits |-> <<>>, carry |-> 1]
    ELSE IF ds[Len(ds)] < 9
    THEN [digits |-> [ds EXCEPT ![Len(ds)] = @ + 1], carry |-> 0]
    ELSE LET r == IncDigits(SubSeq(ds, 1, Len(ds) - 1))
         IN  [digits |-> r.digits \o <<0>>, carry |-> r.carry]

RECURSIVE TrimZeroDigits(_)
TrimZeroDigits(ds) ==
    IF ds # <<>> /\ ds[Len(ds)] = 0 THEN TrimZeroDigits(SubSeq(ds, 1, Len(ds) - 1)) ELSE ds

RECURSIVE DigitsText(_)
DigitsText(ds) == IF ds = <<>> THEN "" ELSE ToString(ds[1]) \o DigitsText(Tail(ds))

\* Calculator::format_result
format_result(result) ==
    IF result.d = 0
    THEN (IF result.n > 0 THEN "inf" ELSE IF result.n < 0 THEN "-inf" ELSE "NaN")
    ELSE IF result.d = 1 THEN ToString(result.n)
    ELSE LET a == Abs(result.n)
             whole == a \div result.d
             r == a % result.d
             ds == FracDigits(r, result.d, FormatPrecision)
             rem == FracRemainder(r, result.d, FormatPrecision)
             up == 2 * rem > result.d \/ (2 * rem = result.d /\ ds[FormatPrecision] % 2 = 1)
             rounded == IF up THEN IncDigits(ds) ELSE [digits |-> ds, carry |-> 0]
             frac == TrimZeroDigits(rounded.digits)
             sign == IF result.n < 0 THEN "-" ELSE ""
         IN  sign \o ToString(whole + rounded.carry)
                  \o (IF frac = <<>> THEN "" ELSE "." \o DigitsText(frac))

(***************************************************************************)
(* Terminal::is_terminal_command (src/terminal.rs)                         *)
(***************************************************************************)
terminal_commands == {
    "ls", "cd", "pwd", "grep", "find", "cat", "less", "more",
    "head", "tail", "mkdir", "rm", "cp", "mv", "chmod", "chown",
    "sudo", "git", "npm", "cargo", "python", "python3", "node",
    "yarn", "pnpm", "docker", "podman", "kubectl", "curl", "wget",
    "ssh", "scp", "rsync", "htop", "top", "ps", "kill", "ping",
    "traceroute", "ifconfig", "ip", "netstat", "df", "du", "free",
    "uname", "whoami", "date", "cal", "man", "which", "whereis",
    "echo", "printf", "touch", "nano", "vim", "vi", "nvim",
    "apt", "dnf", "yum", "pacman", "flatpak", "snap" }

\* a variant that knows the allow-list only
on_allow_list(query) == FirstWord(Trim(query)) \in terminal_commands

\* Terminal::is_terminal_command
is_terminal_command(query) ==
    LET trimmed == Trim(query)
    IN  \/ StartsWith(trimmed, "> ")
        \/ StartsWith(trimmed, "$ ")
        \/ FirstWord(trimmed) \in terminal_commands

(***************************************************************************)
(* Sorting.  A slice is sorted by integer keys, ascending.  sort_by is     *)
(* stable.  sort_unstable_by leaves the order of elements with equal keys  *)
(* unspecified: the model lets them come out in input order or in the      *)
(* reverse of it.                                                          *)
(***************************************************************************)
TieOrders == {"input", "reversed"}

\* the sequence f as an explicit tuple, every element computed once
Eager(f) == <<>> \o f

\* seq sorted by keys (keys[i] is the key of seq[i]); equal keys in the order tie
SortByKey(seq, keys, tie) ==
    LET n == Len(seq)
        k == Eager(keys)
        pos == Eager([i \in 1..n |->
                  1 + Cardinality({j \in 1..n : k[j] < k[i]})
                    + Cardinality({j \in 1..n : k[j] = k[i] /\
                                       IF tie = "input" THEN j < i ELSE j > i})])
    IN  Eager([p \in 1..n |-> seq[CHOOSE i \in 1..n : pos[i] = p]])

sort_by(seq, keys) == SortByKey(seq, keys, "input")
sort_unstable_by(seq, keys, tie) == SortByKey(seq, keys, tie)

\* the number of distinct strings of strs that are strictly below s in str::cmp
StrRank(s, strs) == Cardinality({t \in strs : t # s /\ StrLeq(t, s)})

Range(seq) == {seq[i] : i \in 1..Len(seq)}
Take(seq, n) == SubSeq(seq, 1, Min(n, Len(seq)))

(***************************************************************************)
(* The fuzzy scorer.  SkimMatcherV2::fuzzy_match(choice, pattern) is code  *)
(* of the fuzzy-matcher crate: it answers None when pattern is not a       *)
(* subsequence of choice and otherwise Some(score), the same score each    *)
(* time it is asked.  The scores are a table, matcher, drawn by Init.      *)
(***************************************************************************)
RECURSIVE IsSubsequence(_, _)
IsSubsequence(pattern, choice) ==
    IF Len(pattern) = 0 THEN TRUE
    ELSE IF Len(choice) = 0 THEN FALSE
    ELSE IF CharAt(pattern, 1) = CharAt(choice, 1)
         THEN IsSubsequence(SubSeq(pattern, 2, Len(pattern)), SubSeq(choice, 2, Len(choice)))
         ELSE IsSubsequence(pattern, SubSeq(choice, 2, Len(choice)))

(***************************************************************************)
(* EmojiPicker::load_emojis (src/emoji_picker.rs): the 42 built-in emoji,    *)
(* each known by its name (the glyph itself plays no part in the search).   *)
(***************************************************************************)
load_emojis == <<
    [name |-> "grinning", keywords |-> <<"happy", "smile", "grin">>],
    [name |-> "laughing", keywords |-> <<"laugh", "tears", "happy">>],
    [name |-> "heart", keywords |-> <<"love", "red", "heart">>],
    [name |-> "fire", keywords |-> <<"fire", "hot", "flame">>],
    [name |-> "thumbs up", keywords |-> <<"thumbs", "up", "good", "like">>],
    [name |-> "thumbs down", keywords |-> <<"thumbs", "down", "bad", "dislike">>],
    [name |-> "party", keywords |-> <<"party", "celebration", "confetti">>],
    [name |-> "sparkles", keywords |-> <<"sparkle", "star", "magic">>],
    [name |-> "star", keywords |-> <<"star", "favorite">>],
    [name |-> "smiling", keywords |-> <<"smile", "happy", "pleased">>],
    [name |-> "heart eyes", keywords |-> <<"love", "heart", "eyes">>],
    [name |-> "thinking", keywords |-> <<"think", "thinking", "hmm">>],
    [name |-> "cool", keywords |-> <<"cool", "sunglasses", "awesome">>],
    [name |-> "target", keywords |-> <<"target", "goal", "aim">>],
    [name |-> "rocket", keywords |-> <<"rocket", "launch", "fast">>],
    [name |-> "lightbulb", keywords |-> <<"idea", "light", "bulb">>],
    [name |-> "checkmark", keywords |-> <<"check", "ok", "yes">>],
    [name |-> "cross", keywords |-> <<"no", "wrong", "cancel">>],
    [name |-> "art", keywords |-> <<"art", "paint", "color">>],
    [name |-> "music", keywords |-> <<"music", "song", "note">>],
    [name |-> "memo", keywords |-> <<"note", "write", "memo">>],
    [name |-> "camera", keywords |-> <<"photo", "camera", "picture">>],
    [name |-> "earth", keywords |-> <<"world", "earth", "globe">>],
    [name |-> "glowing star", keywords |-> <<"star", "glow", "bright">>],
    [name |-> "computer", keywords |-> <<"computer", "laptop", "code">>],
    [name |-> "phone", keywords |-> <<"phone", "mobile", "smartphone">>],
    [name |-> "game", keywords |-> <<"game", "gaming", "controller">>],
    [name |-> "pizza", keywords |-> <<"pizza", "food">>],
    [name |-> "coffee", keywords |-> <<"coffee", "drink">>],
    [name |-> "moon", keywords |-> <<"moon", "night">>],
    [name |-> "sun", keywords |-> <<"sun", "day", "sunny">>],
    [name |-> "rainbow", keywords |-> <<"rainbow", "color">>],
    [name |-> "gift", keywords |-> <<"gift", "present">>],
    [name |-> "cake", keywords |-> <<"cake", "birthday">>],
    [name |-> "crying", keywords |-> <<"sad", "cry", "tears">>],
    [name |-> "sleeping", keywords |-> <<"sleep", "tired", "zzz">>],
    [name |-> "hugging", keywords |-> <<"hug", "hugging">>],
    [name |-> "praying", keywords |-> <<"pray", "thanks", "please">>],
    [name |-> "clapping", keywords |-> <<"clap", "applause">>],
    [name |-> "muscle", keywords |-> <<"strong", "muscle", "power">>],
    [name |-> "graduation", keywords |-> <<"graduate", "degree", "cap">>],
    [name |-> "money", keywords |-> <<"money", "cash", "dollar">>] >>

(***************************************************************************)
(* The inputs of the model: what the directory scan can find, the windows  *)
(* the desktop can show, what the user can type.                           *)
(***************************************************************************)
MaxApps == 21
MaxScore == 2

\* a desktop entry as parse_desktop_file leaves it: file, Name and Comment
SmallScan == <<
    [file |-> "zoom.desktop", Name |-> "Zoom", Comment |-> None],
    [file |-> "kitty.desktop", Name |-> "kitty", Comment |-> None],
    [file |-> "firefox.desktop", Name |-> "Firefox", Comment |-> Some("Fox Browser")],
    [file |-> "nautilus.desktop", Name |-> "Files", Comment |-> None] >>

\* n entries that all carry the name Firefox; every third one has a comment
BigScan(n) ==
    [i \in 1..n |-> [file |-> "firefox" \o ToString(i) \o ".desktop",
                     Name |-> "Firefox",
                     Comment |-> IF i % 3 = 0 THEN Some("Fox Browser") ELSE None]]

ScanResults == {SmallScan, BigScan(MaxApps)}

WinFirefox == [window_id |-> "0x03a00003", title |-> "Mozilla Firefox", app_name |-> "firefox"]
WinFirefox2 == [window_id |-> "0x03a00017", title |-> "Mozilla Firefox", app_name |-> "firefox"]
WinKitty == [window_id |-> "0x04200007", title |-> "Fox Notes", app_name |-> "kitty"]
WinFiles == [window_id |-> "12", title |-> "Files", app_name |-> "org.gnome.Nautilus"]
WinDownloads == [window_id |-> "0x03a00021", title |-> "Downloads", app_name |-> "firefox"]

\* what a window backend answers: the tool is absent, it fails, or it lists
\* windows (those that passed should_include_window)
Absent == [kind |-> "absent", windows |-> <<>>]
Failed == [kind |-> "err", windows |-> <<>>]
Listed(ws) == [kind |-> "ok", windows |-> ws]

Envs ==
    [window_calls : {Failed, Listed(<<>>), Listed(<<WinFiles>>)},
     wmctrl : {Absent, Failed, Listed(<<WinFirefox, WinKitty, WinFirefox2>>)},
     xdotool : {Absent, Listed(<<>>), Listed(<<WinKitty>>)}]

Texts == {
    "", "  ", "settings", "poppi settings x", "settingsx",
    "sw", "switch", "sw fox", "sw 2+2", "swx",
    "yt cats", "gpt 1+1", "google ls", "google",
    "emoji fire", ":fire", ":1+1",
    "2+2", "2x3", "2+", "ls -1", "$ 1+1", "ls -la",
    "fox", "zzz" }

(***************************************************************************)
(* The state: LauncherState (src/ui.rs), the background scan, and what the *)
(* last handler did.                                                       *)
(***************************************************************************)
VARIABLES
    app_launcher,       \* app_launcher.apps: the loaded applications
    matcher,            \* the scorer's table: <<choice, pattern>> -> score
    open_windows,       \* the cached list of open windows
    current_mode,
    results,
    displayed_results,
    selected_index,
    loader,             \* the background scan: "scanning" until it has landed
    event,              \* the handler that ran last
    query,              \* the trimmed query of the last update_query
    probes,             \* what each get_open_windows call of the last update_query returned
    fuzzy_calls,        \* the fuzzy_match calls of the last update_query
    found,              \* the last answer of a search called on its own
    sorter,             \* how this build's sort_unstable_by leaves equal keys
    selected_row,       \* list_box.selected_row(): the row the list shows as selected
    mutex,              \* who holds a MutexGuard of the state: a subset of {"main", "loader"}
    launcher_window     \* the launcher window: "open" or "closed"

vars == <<app_launcher, matcher, open_windows, current_mode, results, displayed_results,
          selected_index, loader, event, query, probes, fuzzy_calls, found, sorter,
          selected_row, mutex, launcher_window>>

\* every <<choice, pattern>> the model can ask the scorer about with an answer
Choices ==
    {"firefox", "fox browser", "zoom", "kitty", "files", "7-zip"}
    \cup UNION {{ToLowercase(w.title), ToLowercase(w.app_name)} :
                    w \in {WinFirefox, WinFirefox2, WinKitty, WinFiles, WinDownloads}}
    \cup UNION {{e.name} \cup Range(e.keywords) : e \in Range(load_emojis)}

Patterns ==
    {"fox", "fire", "happy", "zzz", "hug", "7-zip", "sw", "2+", "2+2", "1+1", "ls -1", "$ 1+1",
     "swx", "settingsx", "google", "co"}

Pairs == {pr \in Choices \X Patterns : IsSubsequence(pr[2], pr[1])}

\* two scorers: one that scores every match alike, one that scores by the length
\* of the choice
SampleMatchers == {[pr \in Pairs |-> 1], [pr \in Pairs |-> 1 + (Len(pr[1]) % MaxScore)]}

\* SkimMatcherV2::fuzzy_match
fuzzy_match(choice, pattern) ==
    IF <<choice, pattern>> \in DOMAIN matcher THEN Some(matcher[<<choice, pattern>>])
    ELSE None

(***************************************************************************)
(* AppLauncher (src/app_launcher.rs)                                       *)
(***************************************************************************)
AppCap == 20

App(entry) ==
    [name |-> entry.Name,
     name_lower |-> ToLowercase(entry.Name),
     comment_lower |-> IF entry.Comment = None THEN None
                       ELSE Some(ToLowercase(UnwrapOr(entry.Comment, ""))),
     desktop_file |-> entry.file]

\* AppLauncher::new: the entries found, sorted by name_lower (sort_unstable_by)
AppLauncherNew(entries, tie) ==
    LET apps == [i \in 1..Len(entries) |-> App(entries[i])]
        names == {apps[i].name_lower : i \in 1..Len(apps)}
    IN  sort_unstable_by(apps, [i \in 1..Len(apps) |-> StrRank(apps[i].name_lower, names)], tie)

\* a variant that adds the scores of the two fields
AppScoreSum(app, query_lower) ==
    LET name_score == fuzzy_match(app.name_lower, query_lower)
        comment_score == IF app.comment_lower = None THEN None
                         ELSE fuzzy_match(UnwrapOr(app.comment_lower, ""), query_lower)
    IN  UnwrapOr(name_score, 0) + UnwrapOr(comment_score, 0)

\* the score AppLauncher::search gives one application
AppScore(app, query_lower) ==
    LET name_score == fuzzy_match(app.name_lower, query_lower)
        comment_score == IF app.comment_lower = None THEN None
                         ELSE fuzzy_match(UnwrapOr(app.comment_lower, ""), query_lower)
    IN  Max(UnwrapOr(name_score, 0), UnwrapOr(comment_score, 0))

\* the entries of a scored list that search keeps
Pushed(scored) == SelectSeq(scored, LAMBDA r : r.score > 0)

\* a variant that leaves the kept entries in collection order
UnrankedApps(pushed, tie) == pushed

\* the ranking of the kept entries: by score, higher first
RankApps(pushed, tie) ==
    sort_unstable_by(pushed, [i \in 1..Len(pushed) |-> -pushed[i].score], tie)

\* a variant whose empty-query path returns the whole collection
AppSearchUncapped(apps, q, tie) ==
    IF q = ""
    THEN [i \in 1..Len(apps) |-> [item |-> apps[i], score |-> 0]]
    ELSE Take(RankApps(Pushed([i \in 1..Len(apps) |->
                  [item |-> apps[i], score |-> AppScore(apps[i], ToLowercase(q))]]), tie), AppCap)

\* AppLauncher::search: a list of (application, score)
AppSearch(apps, q, tie) ==
    IF q = ""
    THEN Take([i \in 1..Len(apps) |-> [item |-> apps[i], score |-> 0]], AppCap)
    ELSE LET query_lower == ToLowercase(q)
             scored == Eager([i \in 1..Len(apps) |->
                          [item |-> apps[i], score |-> AppScore(apps[i], query_lower)]])
         IN  Take(RankApps(Pushed(scored), tie), AppCap)

\* the fuzzy_match calls AppLauncher::search makes
AppSearchCalls(apps, q) ==
    IF q = "" THEN 0
    ELSE Len(apps) + Cardinality({i \in 1..Len(apps) : apps[i].comment_lower # None})

(***************************************************************************)
(* EmojiPicker::search (src/emoji_picker.rs)                               *)
(***************************************************************************)
EmojiCap == 20

RECURSIVE MaxOption(_)
\* the maximum of a sequence of Option scores (filter_map ... max)
MaxOption(os) ==
    IF os = <<>> THEN None
    ELSE LET rest == MaxOption(Tail(os))
         IN  IF Head(os) = None THEN rest
             ELSE IF rest = None THEN Head(os)
             ELSE Some(Max(UnwrapOr(Head(os), 0), UnwrapOr(rest, 0)))

EmojiScore(emoji, query_lower) ==
    LET name_score == fuzzy_match(ToLowercase(emoji.name), query_lower)
        keyword_score == MaxOption([k \in 1..Len(emoji.keywords) |->
                             fuzzy_match(ToLowercase(emoji.keywords[k]), query_lower)])
    IN  Max(UnwrapOr(name_score, 0), UnwrapOr(keyword_score, 0))

EmojiSearch(emojis, q) ==
    IF q = ""
    THEN Take([i \in 1..Len(emojis) |-> [item |-> emojis[i], score |-> 0]], EmojiCap)
    ELSE LET query_lower == ToLowercase(q)
             scored == Eager([i \in 1..Len(emojis) |->
                          [item |-> emojis[i], score |-> EmojiScore(emojis[i], query_lower)]])
             kept == Pushed(scored)
         IN  Take(sort_by(kept, [i \in 1..Len(kept) |-> -kept[i].score]), EmojiCap)

RECURSIVE SumLen(_)
SumLen(seqs) == IF seqs = <<>> THEN 0 ELSE Len(Head(seqs)) + SumLen(Tail(seqs))

EmojiSearchCalls(emojis, q) ==
    IF q = "" THEN 0
    ELSE Len(emojis) + SumLen([i \in 1..Len(emojis) |-> emojis[i].keywords])

(***************************************************************************)
(* WindowSwitcher (src/window_switcher.rs)                                 *)
(***************************************************************************)
\* a variant that weighs a title match like an application-name match
WindowScorePlain(window, query_lower) ==
    LET title_score == fuzzy_match(ToLowercase(window.title), query_lower)
        app_score == fuzzy_match(ToLowercase(window.app_name), query_lower)
    IN  Max(UnwrapOr(title_score, 0), UnwrapOr(app_score, 0))

\* the score WindowSwitcher::search gives one window
WindowScore(window, query_lower) ==
    LET title_score == fuzzy_match(ToLowercase(window.title), query_lower)
        app_score == fuzzy_match(ToLowercase(window.app_name), query_lower)
        doubled == IF title_score = None THEN None ELSE Some(2 * UnwrapOr(title_score, 0))
    IN  Max(UnwrapOr(doubled, 0), UnwrapOr(app_score, 0))

\* a variant that leaves the matching windows in list order
UnrankedWindows(pushed, tie) == pushed

\* the ranking of the windows that match: by score, higher first
RankWindows(pushed, tie) ==
    sort_unstable_by(pushed, [i \in 1..Len(pushed) |-> -pushed[i].score], tie)

\* WindowSwitcher::search: a list of (window, score)
WindowSearch(q, windows, tie) ==
    IF q = ""
    THEN LET all == [i \in 1..Len(windows) |-> [item |-> windows[i], score |-> 0]]
             titles == {windows[i].title : i \in 1..Len(windows)}
         IN  sort_by(all, [i \in 1..Len(all) |-> StrRank(all[i].item.title, titles)])
    ELSE LET query_lower == ToLowercase(q)
             scored == Eager([i \in 1..Len(windows) |->
                          [item |-> windows[i], score |-> WindowScore(windows[i], query_lower)]])
         IN  RankWindows(Pushed(scored), tie)

WindowSearchCalls(q, windows) == IF q = "" THEN 0 ELSE 2 * Len(windows)

\* a variant of the merge that also drops a window whose key an earlier
\* window of the same list has
FirstOfKey(ws, existing) ==
    LET Key(w) == <<w.title, w.app_name>>
        Fresh(i) == /\ \A k \in 1..Len(existing) : Key(existing[k]) # Key(ws[i])
                    /\ \A k \in 1..(i - 1) : Key(ws[k]) # Key(ws[i])
        F[i \in 0..Len(ws)] ==
            IF i = 0 THEN <<>> ELSE IF Fresh(i) THEN F[i - 1] \o <<ws[i]>> ELSE F[i - 1]
    IN  F[Len(ws)]

\* the windows of ws whose (title, app_name) is the key of no window of existing
NotIn(ws, existing) ==
    SelectSeq(ws, LAMBDA w : ~\E i \in 1..Len(existing) :
                                 existing[i].title = w.title /\ existing[i].app_name = w.app_name)

\* a variant that succeeds with an empty list when no backend lists a window
empty_is_success(env) ==
    LET from_calls == IF env.window_calls.kind = "ok" THEN env.window_calls.windows ELSE <<>>
        all_windows == IF env.wmctrl.kind = "ok"
                       THEN from_calls \o NotIn(env.wmctrl.windows, from_calls)
                       ELSE from_calls
    IN  IF all_windows # <<>> THEN [ok |-> TRUE, windows |-> all_windows]
        ELSE IF env.xdotool.kind = "ok"
        THEN [ok |-> TRUE, windows |-> env.xdotool.windows]
        ELSE [ok |-> FALSE, windows |-> <<>>]

\* a variant that returns the windows of the first backend that lists any
first_backend_wins(env) ==
    IF env.window_calls.kind = "ok" /\ env.window_calls.windows # <<>>
    THEN [ok |-> TRUE, windows |-> env.window_calls.windows]
    ELSE IF env.wmctrl.kind = "ok" /\ env.wmctrl.windows # <<>>
    THEN [ok |-> TRUE, windows |-> env.wmctrl.windows]
    ELSE IF env.xdotool.kind = "ok" /\ env.xdotool.windows # <<>>
    THEN [ok |-> TRUE, windows |-> env.xdotool.windows]
    ELSE [ok |-> FALSE, windows |-> <<>>]

\* WindowSwitcher::get_open_windows: Ok(windows) or Err(message)
get_open_windows(env) ==
    LET from_calls == IF env.window_calls.kind = "ok" THEN env.window_calls.windows ELSE <<>>
        all_windows == IF env.wmctrl.kind = "ok"
                       THEN from_calls \o NotIn(env.wmctrl.windows, from_calls)
                       ELSE from_calls
    IN  IF all_windows # <<>> THEN [ok |-> TRUE, windows |-> all_windows]
        ELSE IF env.xdotool.kind = "ok" /\ env.xdotool.windows # <<>>
        THEN [ok |-> TRUE, windows |-> env.xdotool.windows]
        ELSE [ok |-> FALSE, windows |-> <<>>]

\* what one call of get_open_windows can return
ProbeOutcomes == {get_open_windows(env) : env \in Envs}
NoProbe == [ok |-> FALSE, windows |-> <<>>]

(***************************************************************************)
(* LauncherState::update_query (src/ui.rs)                                 *)
(***************************************************************************)
AppItem(app) == [kind |-> "App", app |-> app]
CalculatorResult(text) == [kind |-> "CalculatorResult", text |-> text]
EmojiItem(emoji) == [kind |-> "Emoji", emoji |-> emoji]
TerminalCommand(text) == [kind |-> "TerminalCommand", text |-> text]
SearchQuery(engine, text) == [kind |-> "SearchQuery", engine |-> engine, query |-> text]
OpenWindowItem(window) == [kind |-> "OpenWindow", window |-> window]
SettingsItem == [kind |-> "Settings"]

AppItems(scored) == [i \in 1..Len(scored) |-> AppItem(scored[i].item)]
EmojiItems(scored) == [i \in 1..Len(scored) |-> EmojiItem(scored[i].item)]
WindowItems(scored) == [i \in 1..Len(scored) |-> OpenWindowItem(scored[i].item)]

IsSettingsQuery(q) ==
    q = "poppi settings" \/ q = "settings" \/ StartsWith(q, "poppi settings ")

IsWindowSwitchQuery(q) ==
    q = "sw" \/ StartsWith(q, "sw ") \/ q = "switch" \/ StartsWith(q, "switch ")

\* the sub-query handed to the window search
WindowQuery(q) ==
    IF q = "sw" \/ q = "switch" THEN ""
    ELSE IF StartsWith(q, "sw ") THEN StripPrefix(q, "sw ")
    ELSE IF StartsWith(q, "switch ") THEN StripPrefix(q, "switch ")
    ELSE q

IsYoutubeQuery(q) == StartsWith(q, "yt ") \/ StartsWith(q, "youtube ")
IsChatgptQuery(q) == StartsWith(q, "gpt ") \/ StartsWith(q, "chatgpt ")
IsGoogleQuery(q) == StartsWith(q, "google ")
IsEmojiQuery(q) == StartsWith(q, "emoji ") \/ StartsWith(q, ":")

\* a variant that strips the first prefix only
StripFirst(q, a, b) == IF StartsWith(q, a) THEN StripPrefix(q, a) ELSE q

\* strip_prefix(a).unwrap_or(strip_prefix(b).unwrap_or(q))
StripEither(q, a, b) ==
    IF StartsWith(q, a) THEN StripPrefix(q, a)
    ELSE IF StartsWith(q, b) THEN StripPrefix(q, b)
    ELSE q

\* a variant that fetches on every window-switch query
FetchAlways(cache) == TRUE

\* "Only fetch windows if cache is empty": the guard of the first probe
FirstProbeWanted(cache) == cache = <<>>

\* the cache after the first probe returned p
CacheAfterProbe(cache, p) == IF p.ok /\ p.windows # <<>> THEN p.windows ELSE cache

\* a variant that never asks a second time
NeverAgain(res, cache) == FALSE

\* a variant that asks again whenever the search found nothing
NoResultAsksAgain(res, cache) == res = <<>>

\* "If no results and no windows": the guard of the second probe
SecondProbeWanted(res, cache) == res = <<>> /\ cache = <<>>

\* a variant that shows nothing when the second probe finds no window
EmptyOnFailure(p, window_query, tie) ==
    IF p.ok /\ p.windows # <<>>
    THEN WindowItems(WindowSearch(window_query, p.windows, tie))
    ELSE <<>>

\* what the second probe's answer p turns into
SecondProbeResults(p, window_query, tie) ==
    IF p.ok /\ p.windows # <<>>
    THEN WindowItems(WindowSearch(window_query, p.windows, tie))
    ELSE IF p.ok
    THEN <<SearchQuery("info", "No open windows found")>>
    ELSE <<SearchQuery("error", "Error: No windows found. Install 'window-calls' extension for native Wayland window support.. Try: wmctrl -l")>>

\* the guard of "Clear window cache when leaving window switch mode"
ClearsCache(mode) == mode # "WindowSwitch"

\* the three search engines offered when no application matches
\* a variant without the web-search candidates
NoFallback(q) == <<>>

SearchFallback(q) ==
    <<SearchQuery("youtube", q), SearchQuery("google", q), SearchQuery("chatgpt", q)>>

Outcome(mode, res, cache, q, pr, calls) ==
    [current_mode |-> mode, results |-> res, open_windows |-> cache,
     query |-> q, probes |-> pr, fuzzy_calls |-> calls]

\* the window-switch rule: p1 and p2 are what the probes return when they are made
WindowSwitchUpdate(st, q, p1, p2, tie) ==
    LET window_query == WindowQuery(q)
        fetch == FirstProbeWanted(st.open_windows)
        cache1 == IF fetch THEN CacheAfterProbe(st.open_windows, p1) ELSE st.open_windows
        results1 == WindowItems(WindowSearch(window_query, cache1, tie))
        again == SecondProbeWanted(results1, cache1)
        made == (IF fetch THEN <<p1>> ELSE <<>>) \o (IF again THEN <<p2>> ELSE <<>>)
        calls1 == WindowSearchCalls(window_query, cache1)
    IN  IF again
        THEN Outcome("WindowSwitch", SecondProbeResults(p2, window_query, tie),
                     CacheAfterProbe(cache1, p2), q, made,
                     calls1 + (IF p2.ok /\ p2.windows # <<>>
                               THEN WindowSearchCalls(window_query, p2.windows) ELSE 0))
        ELSE Outcome("WindowSwitch", results1, cache1, q, made, calls1)

\* the calculator rule, entered when is_calculation(q)
\* a variant that stays in mode Calculator when the evaluation fails
CalculatorKeepsMode(st, q, cache, tie, r) ==
    IF r.ok
    THEN Outcome("Calculator", <<CalculatorResult(format_result(r.v))>>, cache, q, <<>>, 0)
    ELSE Outcome("Calculator", AppItems(AppSearch(st.app_launcher, q, tie)), cache, q, <<>>,
                 AppSearchCalls(st.app_launcher, q))

\* the calculator rule, given the answer r of Calculator::evaluate
CalculatorOutcome(st, q, cache, tie, r) ==
    IF r.ok
    THEN Outcome("Calculator", <<CalculatorResult(format_result(r.v))>>, cache, q, <<>>, 0)
    ELSE Outcome("Apps", AppItems(AppSearch(st.app_launcher, q, tie)), cache, q, <<>>,
                 AppSearchCalls(st.app_launcher, q))

CalculatorUpdate(st, q, cache, tie) == CalculatorOutcome(st, q, cache, tie, evaluate(q))

\* a variant whose mode follows what it shows: Search when no application matches
DefaultByContent(st, q, cache, tie) ==
    IF AppSearch(st.app_launcher, q, tie) = <<>> /\ q # ""
    THEN Outcome("Search", SearchFallback(q), cache, q, <<>>, AppSearchCalls(st.app_launcher, q))
    ELSE Outcome("Apps", AppItems(AppSearch(st.app_launcher, q, tie)), cache, q, <<>>,
                 AppSearchCalls(st.app_launcher, q))

\* the default rule: the application search, or the search engines
DefaultUpdate(st, q, cache, tie) ==
    LET app_results == AppItems(AppSearch(st.app_launcher, q, tie))
    IN  Outcome("Apps",
                IF app_results = <<>> /\ q # "" THEN SearchFallback(q) ELSE app_results,
                cache, q, <<>>, AppSearchCalls(st.app_launcher, q))

\* a variant that tries the terminal rule before the calculator rule
TerminalBeforeCalculator(st, q, cache, tie) ==
    IF IsYoutubeQuery(q)
    THEN Outcome("Search", <<SearchQuery("youtube", StripEither(q, "yt ", "youtube "))>>,
                 cache, q, <<>>, 0)
    ELSE IF IsChatgptQuery(q)
    THEN Outcome("Search", <<SearchQuery("chatgpt", StripEither(q, "gpt ", "chatgpt "))>>,
                 cache, q, <<>>, 0)
    ELSE IF IsGoogleQuery(q)
    THEN Outcome("Search", <<SearchQuery("google", StripPrefix(q, "google "))>>,
                 cache, q, <<>>, 0)
    ELSE IF IsEmojiQuery(q)
    THEN Outcome("Emoji", EmojiItems(EmojiSearch(load_emojis, StripEither(q, "emoji ", ":"))),
                 cache, q, <<>>, EmojiSearchCalls(load_emojis, StripEither(q, "emoji ", ":")))
    ELSE IF is_terminal_command(q)
    THEN Outcome("Terminal", <<TerminalCommand(q)>>, cache, q, <<>>, 0)
    ELSE IF is_calculation(q) THEN CalculatorUpdate(st, q, cache, tie)
    ELSE DefaultUpdate(st, q, cache, tie)

\* the rules after the window-switch rule; cache is the window cache they leave
LaterRules(st, q, cache, tie) ==
    IF IsYoutubeQuery(q)
    THEN Outcome("Search", <<SearchQuery("youtube", StripEither(q, "yt ", "youtube "))>>,
                 cache, q, <<>>, 0)
    ELSE IF IsChatgptQuery(q)
    THEN Outcome("Search", <<SearchQuery("chatgpt", StripEither(q, "gpt ", "chatgpt "))>>,
                 cache, q, <<>>, 0)
    ELSE IF IsGoogleQuery(q)
    THEN Outcome("Search", <<SearchQuery("google", StripPrefix(q, "google "))>>,
                 cache, q, <<>>, 0)
    ELSE IF IsEmojiQuery(q)
    THEN Outcome("Emoji", EmojiItems(EmojiSearch(load_emojis, StripEither(q, "emoji ", ":"))),
                 cache, q, <<>>, EmojiSearchCalls(load_emojis, StripEither(q, "emoji ", ":")))
    ELSE IF is_calculation(q) THEN CalculatorUpdate(st, q, cache, tie)
    ELSE IF is_terminal_command(q)
    THEN Outcome("Terminal", <<TerminalCommand(q)>>, cache, q, <<>>, 0)
    ELSE DefaultUpdate(st, q, cache, tie)

\* a variant of the settings rule that leaves the mode as it was
SettingsKeepsMode(st, q) == Outcome(st.current_mode, <<SettingsItem>>, st.open_windows, q, <<>>, 0)

\* the settings rule: mode Apps and the one Settings entry
SettingsUpdate(st, q) == Outcome("Apps", <<SettingsItem>>, st.open_windows, q, <<>>, 0)

\* update_query on the state st = [app_launcher, open_windows, current_mode]
update_query(st, text, p1, p2, tie) ==
    LET q == Trim(text)
    IN  IF q = ""
        THEN Outcome("Apps", AppItems(AppSearch(st.app_launcher, "", tie)),
                     st.open_windows, q, <<>>, 0)
        ELSE IF IsSettingsQuery(q) THEN SettingsUpdate(st, q)
        ELSE IF IsWindowSwitchQuery(q) THEN WindowSwitchUpdate(st, q, p1, p2, tie)
        ELSE LaterRules(st, q,
                        IF ClearsCache(st.current_mode) THEN <<>> ELSE st.open_windows, tie)

(***************************************************************************)
(* The handlers of build_ui (src/ui.rs)                                    *)
(***************************************************************************)
max_results == 5
emoji_limit == 24

NoSearch == [kind |-> "none", query |-> "", out |-> <<>>, again |-> FALSE]

\* the call before this one was the same search with the same query
Repeated(kind, q) == found.kind = kind /\ found.query = q

State == [app_launcher |-> app_launcher, open_windows |-> open_windows,
          current_mode |-> current_mode]

\* the answers the environment can give to the probes update_query makes: a probe
\* that is not made has the one answer NoProbe
FirstAnswers(text) ==
    IF IsWindowSwitchQuery(Trim(text)) /\ FirstProbeWanted(open_windows)
    THEN ProbeOutcomes ELSE {NoProbe}

SecondAnswers(text, p1, tie) ==
    IF Len(update_query(State, text, p1, NoProbe, tie).probes)
         > (IF FirstProbeWanted(open_windows) THEN 1 ELSE 0)
       /\ IsWindowSwitchQuery(Trim(text))
    THEN ProbeOutcomes ELSE {NoProbe}

\* a variant that displays every result
DisplayedAll(all, limit) == all

\* state.results.iter().take(limit).cloned().collect()
Displayed(all, limit) == Take(all, limit)

\* a variant that leaves the selection where it was
KeptSelection(previous) == previous

\* state.selected_index = 0: the selection a query change leaves
ResetSelection(previous) == 0

\* entry.connect_changed: update_query, then the displayed prefix and the selection
EntryChanged(text) ==
    \E p1 \in FirstAnswers(text) : \E p2 \in SecondAnswers(text, p1, sorter) :
        \E r \in {update_query(State, text, p1, p2, sorter)} :
        LET limit == IF r.current_mode = "Emoji" THEN emoji_limit ELSE max_results
        IN  /\ current_mode' = r.current_mode
            /\ results' = r.results
            /\ open_windows' = r.open_windows
            /\ displayed_results' = Displayed(r.results, limit)
            /\ selected_index' = ResetSelection(selected_index)
            /\ query' = r.query
            /\ probes' = r.probes
            /\ fuzzy_calls' = r.fuzzy_calls
            /\ event' = "changed"
            /\ selected_row' = None
            /\ UNCHANGED <<app_launcher, matcher, loader, found, sorter, mutex, launcher_window>>

\* a variant of the landing that searches the new collection for the current
\* query and shows what it finds
LoadRefreshes ==
    /\ loader = "scanning"
    /\ \E entries \in ScanResults :
           /\ app_launcher' = AppLauncherNew(entries, sorter)
           /\ results' = IF current_mode = "Apps" /\ ~IsSettingsQuery(query)
                         THEN AppItems(AppSearch(AppLauncherNew(entries, sorter), query, sorter))
                         ELSE results
    /\ displayed_results' = IF current_mode = "Emoji" THEN displayed_results
                             ELSE Displayed(results', max_results)
    /\ loader' = "done"
    /\ event' = "loaded"
    /\ UNCHANGED <<matcher, open_windows, current_mode, selected_index, query, probes,
                   fuzzy_calls, found, sorter, selected_row, mutex, launcher_window>>

\* a variant in which a scan can land at any time, also after another
LoadLandsAgain ==
    /\ \E entries \in ScanResults : app_launcher' = AppLauncherNew(entries, sorter)
    /\ loader' = "done"
    /\ event' = "loaded"
    /\ UNCHANGED <<matcher, open_windows, current_mode, results, displayed_results,
                   selected_index, query, probes, fuzzy_calls, found, sorter, selected_row,
                   mutex, launcher_window>>

\* the background scan lands: set_app_launcher, once
LoadLanded ==
    /\ loader = "scanning"
    /\ \E entries \in ScanResults : app_launcher' = AppLauncherNew(entries, sorter)
    /\ loader' = "done"
    /\ event' = "loaded"
    /\ UNCHANGED <<matcher, open_windows, current_mode, results, displayed_results,
                   selected_index, query, probes, fuzzy_calls, found, sorter, selected_row,
                   mutex, launcher_window>>

\* LauncherState::new, with the scan still running
Init ==
    /\ app_launcher = <<>>
    /\ matcher \in SampleMatchers
    /\ open_windows = <<>>
    /\ current_mode = "Apps"
    /\ results = <<>>
    /\ displayed_results = <<>>
    /\ selected_index = 0
    /\ loader = "scanning"
    /\ event = "new"
    /\ query = ""
    /\ probes = <<>>
    /\ fuzzy_calls = 0
    /\ found = NoSearch
    /\ sorter \in TieOrders
    /\ selected_row = None
    /\ mutex = {}
    /\ launcher_window = "open"

Next ==
    \/ \E text \in Texts : EntryChanged(text)
    \/ LoadLanded

Spec == Init /\ [][Next]_vars

(***************************************************************************)
(* The three searches called on their own, on any loaded collection, any   *)
(* window list get_open_windows can return and any scorer that ranks the   *)
(* matches of "fox".                                                       *)
(***************************************************************************)
SearchTexts == {"", "fox", "Fox", "happy", "zzz"}

LoadedCollections == {AppLauncherNew(entries, tie) : entries \in ScanResults, tie \in TieOrders}

\* no window, and the merged answer of window_calls and wmctrl
WindowLists ==
    {<<>>,
     get_open_windows([window_calls |-> Listed(<<WinFiles>>),
                       wmctrl |-> Listed(<<WinFirefox, WinKitty, WinFirefox2>>),
                       xdotool |-> Absent]).windows}

RankedChoices == {pr[1] : pr \in {x \in Pairs : x[2] = "fox"}}

RankedMatchers ==
    {[pr \in Pairs |-> IF pr[2] = "fox" THEN f[pr[1]] ELSE 1] :
        f \in [RankedChoices -> 1..MaxScore]}

\* a sort whose order of equal keys changes from one call to the next
order_by_history(build, previous) ==
    IF previous.again THEN "input" ELSE "reversed"

\* slice::sort_unstable_by keeps no state between calls: how it leaves equal
\* keys is fixed by the build, whatever was sorted before
unstable_order(build, previous) == build

\* AppLauncher::search
SearchApps(q) ==
    /\ found' = [kind |-> "apps", query |-> q,
                 out |-> AppSearch(app_launcher, q, unstable_order(sorter, found)),
                 again |-> Repeated("apps", q)]
    /\ event' = "search"
    /\ UNCHANGED <<app_launcher, matcher, open_windows, current_mode, results,
                   displayed_results, selected_index, loader, query, probes, fuzzy_calls,
                   sorter, selected_row,
                   mutex, launcher_window>>

\* WindowSwitcher::search
SearchWindows(q) ==
    /\ found' = [kind |-> "windows", query |-> q,
                 out |-> WindowSearch(q, open_windows, unstable_order(sorter, found)),
                 again |-> Repeated("windows", q)]
    /\ event' = "search"
    /\ UNCHANGED <<app_launcher, matcher, open_windows, current_mode, results,
                   displayed_results, selected_index, loader, query, probes, fuzzy_calls,
                   sorter, selected_row,
                   mutex, launcher_window>>

\* EmojiPicker::search
SearchEmoji(q) ==
    /\ found' = [kind |-> "emoji", query |-> q, out |-> EmojiSearch(load_emojis, q),
                 again |-> Repeated("emoji", q)]
    /\ event' = "search"
    /\ UNCHANGED <<app_launcher, matcher, open_windows, current_mode, results,
                   displayed_results, selected_index, loader, query, probes, fuzzy_calls,
                   sorter, selected_row,
                   mutex, launcher_window>>

InitSearch ==
    /\ app_launcher \in LoadedCollections
    /\ matcher \in RankedMatchers
    /\ open_windows \in WindowLists
    /\ current_mode = "Apps"
    /\ results = <<>>
    /\ displayed_results = <<>>
    /\ selected_index = 0
    /\ loader = "done"
    /\ event = "new"
    /\ query = ""
    /\ probes = <<>>
    /\ fuzzy_calls = 0
    /\ found = NoSearch
    /\ sorter \in TieOrders
    /\ selected_row = None
    /\ mutex = {}
    /\ launcher_window = "open"

NextSearch ==
    \/ \E q \in SearchTexts : SearchApps(q)
    \/ \E q \in SearchTexts : SearchWindows(q)
    \/ \E q \in SearchTexts : SearchEmoji(q)

SearchSpec == InitSearch /\ [][NextSearch]_vars

(***************************************************************************)
(* The three searches under a scorer of its whole declared range: the      *)
(* Option<i64> of fuzzy_match can be Some(0). The windows are some that    *)
(* match "fox" by title only, by application name only and by both, and a  *)
(* list longer than the cap of the other two searches.                     *)
(***************************************************************************)
MaxWindows == 21

WideTexts == {"fox", "hug"}

\* n windows of one terminal, all titled alike
ManyWindows(n) ==
    [i \in 1..n |-> [window_id |-> ToString(i), title |-> "Fox Notes", app_name |-> "kitty"]]

WideWindowLists ==
    {<<WinDownloads, WinKitty, WinFirefox>>, <<WinDownloads>> \o ManyWindows(MaxWindows)}

\* every score from 0 up for the four choices that match "fox"; the two
\* fields of the emoji that match "hug" are scored as the two fields of the
\* application are
WideMatchers ==
    {[pr \in Pairs |-> IF pr[2] = "fox" THEN f[pr[1]]
                       ELSE IF pr = <<"hugging", "hug">> THEN f["firefox"]
                       ELSE IF pr = <<"hug", "hug">> THEN f["fox browser"]
                       ELSE 1] :
        f \in [RankedChoices -> 0..MaxScore]}

InitWide ==
    /\ sorter \in TieOrders
    /\ selected_row = None
    /\ mutex = {}
    /\ launcher_window = "open"
    /\ app_launcher = AppLauncherNew(SmallScan, sorter)
    /\ matcher \in WideMatchers
    /\ open_windows \in WideWindowLists
    /\ current_mode = "Apps"
    /\ results = <<>>
    /\ displayed_results = <<>>
    /\ selected_index = 0
    /\ loader = "done"
    /\ event = "new"
    /\ query = ""
    /\ probes = <<>>
    /\ fuzzy_calls = 0
    /\ found = NoSearch

NextWide ==
    \/ \E q \in WideTexts : SearchApps(q)
    \/ \E q \in WideTexts : SearchWindows(q)
    \/ \E q \in WideTexts : SearchEmoji(q)

WideSpec == InitWide /\ [][NextWide]_vars

(***************************************************************************)
(* get_open_windows called on its own, on every answer the three backends  *)
(* can give.                                                               *)
(***************************************************************************)
BackendEnvs ==
    [window_calls : {Failed, Listed(<<>>), Listed(<<WinFiles>>), Listed(<<WinFirefox>>),
                     Listed(<<WinFiles, WinFirefox>>)},
     wmctrl : {Absent, Failed, Listed(<<>>), Listed(<<WinKitty>>),
               Listed(<<WinFirefox, WinKitty, WinFirefox2>>)},
     xdotool : {Absent, Failed, Listed(<<>>), Listed(<<WinKitty>>)}]

\* the backends get_open_windows runs, in the order it runs them
BackendsAsked(env) ==
    LET from_calls == IF env.window_calls.kind = "ok" THEN env.window_calls.windows ELSE <<>>
        all_windows == IF env.wmctrl.kind = "ok"
                       THEN from_calls \o NotIn(env.wmctrl.windows, from_calls)
                       ELSE from_calls
    IN  <<"window_calls">>
        \o (IF env.wmctrl.kind # "absent" THEN <<"wmctrl">> ELSE <<>>)
        \o (IF all_windows = <<>> /\ env.xdotool.kind # "absent" THEN <<"xdotool">> ELSE <<>>)

\* WindowSwitcher::get_open_windows
Enumerate(env) ==
    /\ \E r \in {get_open_windows(env)} :
           found' = [kind |-> "enumerate", query |-> "", out |-> r.windows, again |-> FALSE,
                     ok |-> r.ok, env |-> env, asked |-> BackendsAsked(env)]
    /\ event' = "enumerate"
    /\ UNCHANGED <<app_launcher, matcher, open_windows, current_mode, results,
                   displayed_results, selected_index, loader, query, probes, fuzzy_calls,
                   sorter, selected_row,
                   mutex, launcher_window>>

NextBackends == \E env \in BackendEnvs : Enumerate(env)

BackendSpec == Init /\ [][NextBackends]_vars

(***************************************************************************)
(* update_query on a loaded collection, over the texts of the emoji, the   *)
(* calculator and the terminal rule: every product and quotient of two     *)
(* operands in each way of writing its sign, and every emoji remainder     *)
(* behind each of the two prefixes.                                        *)
(***************************************************************************)
MaxOperand == 2

\* the scan of a desktop that has an archiver installed
ToolScan == SmallScan \o <<[file |-> "7zip.desktop", Name |-> "7-Zip", Comment |-> None]>>

Operands == {ToString(n) : n \in 0..MaxOperand} \cup {"10", "2.5"}

ProductSigns == {"*", "×", "x", "X"}
QuotientSigns == {"/", "÷"}

BinaryTexts == {a \o op \o b : a \in Operands, op \in ProductSigns \cup QuotientSigns, b \in Operands}

CalculatorTexts ==
    {"2+2", "10*5", "10/4", "1/3", "2/3", "1-2", "1-2.5", "-1/3", "(1+2)*3", " 2 + 2 ", "7",
     "2+", "7-zip", "(1+2", "2x", "ls -1", "$ 1+1"}

TerminalTexts == {"ls -la", "ls", "  git status ", "> echo hi", "$ ls", "> 2", "lsx", ">x"}

Remainders == {"", " ", "fire", "Fire", "fire ", " fire", "hug", "happy", "zzz", "1+1", "sw"}

EmojiTexts == {"emoji " \o r : r \in Remainders} \cup {":" \o r : r \in Remainders}

QueryTexts == BinaryTexts \cup CalculatorTexts \cup TerminalTexts \cup EmojiTexts

InitQuery ==
    /\ sorter \in TieOrders
    /\ selected_row = None
    /\ mutex = {}
    /\ launcher_window = "open"
    /\ app_launcher = AppLauncherNew(ToolScan, sorter)
    /\ matcher \in SampleMatchers
    /\ open_windows = <<>>
    /\ current_mode = "Apps"
    /\ results = <<>>
    /\ displayed_results = <<>>
    /\ selected_index = 0
    /\ loader = "done"
    /\ event = "new"
    /\ query = ""
    /\ probes = <<>>
    /\ fuzzy_calls = 0
    /\ found = NoSearch

NextQuery == \E text \in QueryTexts : EntryChanged(text)

QuerySpec == InitQuery /\ [][NextQuery]_vars

(***************************************************************************)
(* The window cache (C1 - C5)                                              *)
(***************************************************************************)
\* the probe answer p lists at least one window
Lists(p) == p.ok /\ p.windows # <<>>

\* C1: whenever update_query runs while the mode is WindowSwitch and the new
\* trimmed query is no window-switch query (the empty query and the settings
\* keywords included), the window cache is empty when it returns.
C1_CacheClearedOnExit ==
    [][(event' = "changed" /\ current_mode = "WindowSwitch" /\ ~IsWindowSwitchQuery(query'))
        => open_windows' = <<>>]_vars

\* the mode has left WindowSwitch and the windows fetched there are still cached
C1_CacheKeptAfterExit ==
    event = "changed" /\ ~IsWindowSwitchQuery(query) /\ current_mode # "WindowSwitch"
    /\ open_windows # <<>>

\* C2: a window-switch query that follows one or more queries of other modes
\* makes update_query call get_open_windows at least once.
C2_ReentryProbes ==
    [][(event' = "changed" /\ current_mode # "WindowSwitch" /\ IsWindowSwitchQuery(query'))
        => Len(probes') >= 1]_vars

\* C3 as stated: a window-switch query processed with an empty cache calls
\* get_open_windows exactly once, whatever the call returns.
C3_ExactlyOneProbe ==
    [][(event' = "changed" /\ IsWindowSwitchQuery(query') /\ open_windows = <<>>)
        => Len(probes') = 1]_vars

\* C3: a window-switch query processed with an empty cache calls
\* get_open_windows exactly once when the first call lists a window, and
\* exactly twice when the first call fails or lists nothing.
C3_OneProbeOrTwo ==
    [][(event' = "changed" /\ IsWindowSwitchQuery(query') /\ open_windows = <<>>)
        => /\ Len(probes') >= 1
           /\ Len(probes') = (IF Lists(probes'[1]) THEN 1 ELSE 2)]_vars

\* the first call failed and update_query called again
C3_SecondProbeMade ==
    event = "changed" /\ IsWindowSwitchQuery(query) /\ Len(probes) = 2 /\ ~Lists(probes[1])

\* C4: a window-switch query processed with a non-empty cache calls
\* get_open_windows not at all, leaves the cache as it was, and shows windows
\* of the cache only: the answer of the window search on the cached list.
C4_CacheHit ==
    [][(event' = "changed" /\ IsWindowSwitchQuery(query') /\ open_windows # <<>>)
        => /\ probes' = <<>>
           /\ open_windows' = open_windows
           /\ \A i \in 1..Len(results') :
                  results'[i].kind = "OpenWindow" /\ results'[i].window \in Range(open_windows)
           /\ \E tie \in TieOrders :
                  results' = WindowItems(WindowSearch(WindowQuery(query'), open_windows, tie))]_vars

\* a window-switch query was answered from the cache, without a probe
C4_AnsweredFromCache ==
    event = "changed" /\ IsWindowSwitchQuery(query) /\ probes = <<>>
    /\ open_windows # <<>> /\ results # <<>>

\* C5: a window-switch query processed with an empty cache while every call
\* of get_open_windows fails or lists nothing leaves mode WindowSwitch and
\* exactly one result, a SearchQuery of engine "error" or "info" with a message.
C5_FailureCandidate ==
    (event = "changed" /\ IsWindowSwitchQuery(query) /\ probes # <<>>
        /\ \A i \in 1..Len(probes) : ~Lists(probes[i]))
    => /\ current_mode = "WindowSwitch"
       /\ Len(results) = 1
       /\ results[1].kind = "SearchQuery"
       /\ results[1].engine \in {"error", "info"}
       /\ results[1].query # ""

\* every call failed, on a query with a sub-query
C5_AllProbesFailed ==
    event = "changed" /\ query = "sw fox" /\ Len(probes) = 2
    /\ (\A i \in 1..Len(probes) : ~Lists(probes[i]))
    /\ Len(results) = 1 /\ results[1].engine = "error"

(***************************************************************************)
(* The router (C6 - C8)                                                    *)
(***************************************************************************)
\* every result of the list rs is of kind k
AllOfKind(rs, k) == \A i \in 1..Len(rs) : rs[i].kind = k

\* C6: update_query tries its rules on the trimmed query in the order empty,
\* settings keyword, window-switch keyword, search-engine prefix, emoji
\* prefix, calculation heuristic, terminal heuristic, default application
\* search, and the first rule that matches alone decides mode and results:
\* a query that passes the calculation heuristic is never Terminal.
C6_FirstRuleWins ==
    event = "changed" =>
        IF query = "" THEN current_mode = "Apps" /\ AllOfKind(results, "App")
        ELSE IF IsSettingsQuery(query)
        THEN current_mode = "Apps" /\ results = <<SettingsItem>>
        ELSE IF IsWindowSwitchQuery(query)
        THEN /\ current_mode = "WindowSwitch"
             /\ results # <<>> => results[1].kind \in {"OpenWindow", "SearchQuery"}
             /\ \A i \in 1..Len(results) :
                    results[i].kind = "SearchQuery" => results[i].engine \in {"error", "info"}
        ELSE IF IsYoutubeQuery(query) \/ IsChatgptQuery(query) \/ IsGoogleQuery(query)
        THEN /\ current_mode = "Search"
             /\ Len(results) = 1
             /\ results[1].kind = "SearchQuery"
             /\ results[1].engine = (IF IsYoutubeQuery(query) THEN "youtube"
                                     ELSE IF IsChatgptQuery(query) THEN "chatgpt"
                                     ELSE "google")
        ELSE IF IsEmojiQuery(query)
        THEN current_mode = "Emoji" /\ AllOfKind(results, "Emoji")
        ELSE IF is_calculation(query)
        THEN \/ current_mode = "Calculator" /\ Len(results) = 1
                /\ results[1].kind = "CalculatorResult"
             \/ current_mode = "Apps" /\ ~evaluate(query).ok /\ AllOfKind(results, "App")
        ELSE IF is_terminal_command(query)
        THEN current_mode = "Terminal" /\ results = <<TerminalCommand(query)>>
        ELSE /\ current_mode = "Apps"
             /\ AllOfKind(results, "App") \/ results = SearchFallback(query)

\* a query that passes the calculation heuristic and the terminal heuristic
\* went to the calculator rule
C6_CalculationBeforeTerminal ==
    event = "changed" /\ query = "ls -1" /\ is_calculation(query)
    /\ is_terminal_command(query) /\ current_mode = "Apps"

\* the mode of a trimmed query, read off the query alone
ModeOfQuery(q) ==
    IF q = "" \/ q \in {"poppi settings", "settings"} \/ StartsWith(q, "poppi settings ")
    THEN "Apps"
    ELSE IF q \in {"sw", "switch"} \/ StartsWith(q, "sw ") \/ StartsWith(q, "switch ")
    THEN "WindowSwitch"
    ELSE IF \E pre \in {"yt ", "youtube ", "gpt ", "chatgpt ", "google "} : StartsWith(q, pre)
    THEN "Search"
    ELSE IF StartsWith(q, "emoji ") \/ StartsWith(q, ":") THEN "Emoji"
    ELSE IF is_calculation(q) THEN (IF evaluate(q).ok THEN "Calculator" ELSE "Apps")
    ELSE IF is_terminal_command(q) THEN "Terminal"
    ELSE "Apps"

\* C7: after update_query(q) the one active mode depends on q only: whatever
\* the previous mode, the previous results, the window cache and the loaded
\* collection were, the mode is the same function of the trimmed query.
C7_ModeFromQueryAlone ==
    event = "changed" => current_mode = ModeOfQuery(query)

\* the default rule on an empty collection: it shows search engines, in mode Apps
C7_SameModeWithoutApps ==
    event = "changed" /\ query = "fox" /\ app_launcher = <<>> /\ open_windows # <<>>
    /\ results = SearchFallback("fox") /\ current_mode = "Apps"

\* C8: for an empty or whitespace-only query update_query sets mode Apps and
\* shows the first min(20, n) applications of the loaded collection, which
\* ascend by (lowercased) name, without a call of the scorer.
C8_EmptyQuery ==
    (event = "changed" /\ query = "") =>
        /\ current_mode = "Apps"
        /\ results = [i \in 1..Min(20, Len(app_launcher)) |-> AppItem(app_launcher[i])]
        /\ \A i \in 1..Len(results) : \A j \in i..Len(results) :
               StrLeq(results[i].app.name_lower, results[j].app.name_lower)
        /\ fuzzy_calls = 0

\* the empty query on a collection of more than 20 applications
C8_FirstTwenty ==
    event = "changed" /\ query = "" /\ Len(app_launcher) > 20 /\ Len(results) = 20

(***************************************************************************)
(* The ranked searches (C9, C10)                                           *)
(***************************************************************************)
\* the items of a scored list
ItemsOf(out) == {out[i].item : i \in 1..Len(out)}

\* where x stands in the sequence seq
IndexOf(seq, x) == CHOOSE i \in 1..Len(seq) : seq[i] = x

\* the scores never rise along out
NonIncreasing(out) ==
    \A i \in 1..Len(out) : \A j \in i..Len(out) : out[i].score >= out[j].score

\* no item appears twice in out
Distinct(out) == \A i \in 1..Len(out) : \A j \in 1..Len(out) : out[i].item = out[j].item => i = j

\* C9: for a non-empty query AppLauncher::search returns at most 20 entries,
\* each an application of the collection with its score, every score is above
\* 0, the scores never rise along the list, and no application left out
\* scores higher than one that is in the list.
C9_RankedApps ==
    (found.kind = "apps" /\ found.query # "") =>
        LET out == found.out
            query_lower == ToLowercase(found.query)
        IN  /\ Len(out) <= 20
            /\ \A i \in 1..Len(out) :
                   /\ out[i].item \in Range(app_launcher)
                   /\ out[i].score = AppScore(out[i].item, query_lower)
                   /\ out[i].score > 0
            /\ NonIncreasing(out)
            /\ \A app \in Range(app_launcher) \ ItemsOf(out) :
                   \A i \in 1..Len(out) : AppScore(app, query_lower) <= out[i].score

\* a search that filled the cap with entries of different scores
C9_FullRankedList ==
    found.kind = "apps" /\ found.query = "fox" /\ Len(app_launcher) > 20
    /\ Len(found.out) = 20 /\ found.out[1].score > found.out[20].score

\* the collection a ranked search of the given kind reads
Underlying(kind) == IF kind = "apps" THEN app_launcher ELSE open_windows

AppFields(app) ==
    {app.name_lower}
    \cup (IF app.comment_lower = None THEN {} ELSE {UnwrapOr(app.comment_lower, "")})

EmojiFields(emoji) ==
    {ToLowercase(emoji.name)} \cup {ToLowercase(k) : k \in Range(emoji.keywords)}

\* the scores the scorer returns for these fields: a field without a match
\* contributes none
PresentScores(fields, pattern) ==
    {matcher[<<f, pattern>>] : f \in {g \in fields : <<g, pattern>> \in DOMAIN matcher}}

\* the candidates and the fields of the search that answered last
Candidates == IF found.kind = "apps" THEN Range(app_launcher) ELSE Range(load_emojis)
FieldsOf(c) == IF found.kind = "apps" THEN AppFields(c) ELSE EmojiFields(c)

\* the score of every listed candidate is the greatest of its fields' scores
ScoreIsMaximum ==
    \A i \in 1..Len(found.out) :
        LET present == PresentScores(FieldsOf(found.out[i].item), ToLowercase(found.query))
        IN  /\ found.out[i].score \in present
            /\ \A s \in present : s <= found.out[i].score

\* C11 as stated: for a non-empty query the score of an application or emoji
\* is the maximum of the scorer's results over its fields, never their sum,
\* and every candidate with a score on at least one field is listed (the
\* collections here are shorter than the cap).
C11_ListedWhenAnyFieldScores ==
    (found.kind \in {"apps", "emoji"} /\ found.query # "") =>
        /\ ScoreIsMaximum
        /\ ItemsOf(found.out)
             = {c \in Candidates : PresentScores(FieldsOf(c), ToLowercase(found.query)) # {}}

\* C11: for a non-empty query the score of an application or emoji is the
\* maximum of the scorer's results over its fields, never their sum, and a
\* candidate is listed exactly when that maximum is above zero: a candidate
\* whose every score is Some(0) or less is discarded like one without a match.
C11_ListedWhenBestScorePositive ==
    (found.kind \in {"apps", "emoji"} /\ found.query # "") =>
        /\ ScoreIsMaximum
        /\ ItemsOf(found.out)
             = {c \in Candidates :
                   \E s \in PresentScores(FieldsOf(c), ToLowercase(found.query)) : s > 0}

\* Firefox matched by name with score 1 and by comment with score 2 is listed
\* with score 2
C11_BestOfTwoFields ==
    /\ found.kind = "apps" /\ found.query = "fox"
    /\ matcher[<<"firefox", "fox">>] = 1 /\ matcher[<<"fox browser", "fox">>] = 2
    /\ Len(found.out) = 1 /\ found.out[1].score = 2

\* the scores of the two fields of window w, the title's doubled
WeighedScores(w, pattern) ==
    {2 * s : s \in PresentScores({ToLowercase(w.title)}, pattern)}
    \cup PresentScores({ToLowercase(w.app_name)}, pattern)

\* window w matches by its title only, with score s
TitleOnly(w, pattern, s) ==
    /\ PresentScores({ToLowercase(w.title)}, pattern) = {s}
    /\ PresentScores({ToLowercase(w.app_name)}, pattern) = {}

\* window w matches by its application name only, with score t
AppNameOnly(w, pattern, t) ==
    /\ PresentScores({ToLowercase(w.title)}, pattern) = {}
    /\ PresentScores({ToLowercase(w.app_name)}, pattern) = {t}

\* C12: for a non-empty sub-query a listed window's score is the greater of
\* twice its title score and its application-name score, a field without a
\* match contributing nothing; every window with a score above zero is
\* listed, however many there are; and a window that matches by title only
\* with score s stands before every window that matches by application name
\* only with a score below 2s.
C12_TitleCountsDouble ==
    (found.kind = "windows" /\ found.query # "") =>
        LET pattern == ToLowercase(found.query)
            listed == ItemsOf(found.out)
        IN  /\ \A i \in 1..Len(found.out) :
                   /\ found.out[i].score \in WeighedScores(found.out[i].item, pattern)
                   /\ \A s \in WeighedScores(found.out[i].item, pattern) :
                          s <= found.out[i].score
            /\ Len(found.out)
                 = Cardinality({i \in 1..Len(open_windows) :
                       \E s \in WeighedScores(open_windows[i], pattern) : s > 0})
            /\ \A w \in Range(open_windows) : \A t \in 0..MaxScore :
                   AppNameOnly(w, pattern, t) =>
                       \A v \in Range(open_windows) : \A s \in 0..MaxScore :
                           (TitleOnly(v, pattern, s) /\ t < 2 * s)
                           => /\ v \in listed
                              /\ w \in listed
                                   => IndexOf(found.out, [item |-> v, score |-> 2 * s])
                                        < IndexOf(found.out, [item |-> w, score |-> t])

\* more windows than the cap of the other searches are listed, those matched
\* by title with score 1 before the one matched by application name with score 1
C12_TitleBeforeAppName ==
    /\ found.kind = "windows" /\ found.query = "fox"
    /\ matcher[<<"fox notes", "fox">>] = 1 /\ matcher[<<"firefox", "fox">>] = 1
    /\ Len(found.out) = MaxWindows + 1 /\ Len(found.out) > AppCap
    /\ found.out[1].score = 2
    /\ found.out[Len(found.out)] = [item |-> WinDownloads, score |-> 1]

ReachesCalculator(q) ==
    /\ q # "" /\ ~IsSettingsQuery(q) /\ ~IsWindowSwitchQuery(q)
    /\ ~IsYoutubeQuery(q) /\ ~IsChatgptQuery(q) /\ ~IsGoogleQuery(q)
    /\ ~IsEmojiQuery(q)

\* the k digits of text from position i on
TextDigits(text, i, k) == [j \in 1..k |-> DigitValue(CharAt(text, i + j - 1))]

\* text is a decimal numeral for v: an optional '-', the digits of the whole
\* part and, behind a point, from 1 to 10 digits that do not end in 0; it is
\* v cut off behind its last digit, or that raised by one in the last place
DecimalOf(v, text) ==
    LET from == IF CharAt(text, 1) = "-" THEN 2 ELSE 1
        w == DigitRun(text, from)
        f == IF CharAt(text, from + w) = "." THEN DigitRun(text, from + w + 1) ELSE 0
        shown == <<DigitsValue(text, from, w)>> \o TextDigits(text, from + w + 1, f)
        cut == <<Abs(v.n) \div v.d>> \o FracDigits(Abs(v.n) % v.d, v.d, f)
        raised == [cut EXCEPT ![1] = @ + IncDigits(Tail(cut)).carry]
    IN  /\ v.d > 0
        /\ (CharAt(text, 1) = "-") <=> (v.n < 0)
        /\ w >= 1 /\ f >= 1 /\ f <= 10
        /\ Len(text) = from + w + f
        /\ CharAt(text, Len(text)) # "0"
        /\ \/ shown = cut
           \/ shown = <<raised[1]>> \o IncDigits(Tail(cut)).digits

\* text shows the value v as C14 says
ShownAsNumber(v, text) ==
    IF v.d = 1 THEN text = ToString(v.n) ELSE DecimalOf(v, text)

\* C14: a well-formed arithmetic expression that passes the calculation
\* heuristic leaves mode Calculator and exactly one CalculatorResult: the
\* decimal integer text when the value has no fractional part, otherwise a
\* decimal with at most 10 fractional digits and no trailing zero or point.
C14_ValueShownAsNumber ==
    (event = "changed" /\ ReachesCalculator(query) /\ is_calculation(query)
        /\ evaluate(query).ok)
    => /\ current_mode = "Calculator"
       /\ Len(results) = 1
       /\ results[1].kind = "CalculatorResult"
       /\ ShownAsNumber(evaluate(query).v, results[1].text)

\* a division by zero evaluates and is shown as "inf"
C14_DivisionByZeroShown ==
    event = "changed" /\ query = "1/0" /\ evaluate(query).ok
    /\ current_mode = "Calculator" /\ results = <<CalculatorResult("inf")>>

\* what holds of C14: every expression with a finite value is shown as C14 says
FiniteValuesShownAsNumber ==
    (event = "changed" /\ ReachesCalculator(query) /\ is_calculation(query)
        /\ evaluate(query).ok /\ evaluate(query).v.d # 0)
    => /\ current_mode = "Calculator"
       /\ Len(results) = 1
       /\ results[1].kind = "CalculatorResult"
       /\ ShownAsNumber(evaluate(query).v, results[1].text)

\* the sign that meval reads for the sign op of a query
PlainSign(op) == IF op \in ProductSigns THEN "*" ELSE "/"

\* C15: a product written with '×', 'x' or 'X' and a quotient written with
\* '÷' are in mode Calculator like the same text with '*' or '/', and show
\* the same CalculatorResult, for all operands a and b.
C15_GlyphsAreSigns ==
    event = "changed" =>
        \A a \in Operands : \A b \in Operands : \A op \in ProductSigns \cup QuotientSigns :
            query = a \o op \o b =>
                LET plain == update_query(State, a \o PlainSign(op) \o b, NoProbe, NoProbe, sorter)
                IN  /\ current_mode = "Calculator"
                    /\ plain.current_mode = "Calculator"
                    /\ Len(results) = 1
                    /\ results[1].kind = "CalculatorResult"
                    /\ results = plain.results

\* a product written with the capital X was evaluated
C15_CapitalXProduct ==
    event = "changed" /\ query = "2X10" /\ current_mode = "Calculator"
    /\ results = <<CalculatorResult("20")>>

\* C16: a query that passes the calculation heuristic and fails to evaluate
\* leaves mode Apps and, as results, exactly the application search of the
\* whole trimmed query: no error candidate and no CalculatorResult.
C16_FailedCalculationSearchesApps ==
    (event = "changed" /\ ReachesCalculator(query) /\ is_calculation(query)
        /\ ~evaluate(query).ok)
    => /\ current_mode = "Apps"
       /\ results = AppItems(AppSearch(app_launcher, query, sorter))
       /\ AllOfKind(results, "App")

\* "7-zip" looks like a subtraction, fails to evaluate and finds the archiver
C16_ArchiverFound ==
    /\ event = "changed" /\ query = "7-zip" /\ is_calculation(query) /\ ~evaluate(query).ok
    /\ current_mode = "Apps" /\ Len(results) = 1 /\ results[1].kind = "App"
    /\ results[1].app.name = "7-Zip"

\* the trimmed query q is answered by an application search: by the default
\* rule, or by the calculator rule after a failed evaluation
AnsweredByAppSearch(q) ==
    /\ ReachesCalculator(q)
    /\ IF is_calculation(q) THEN ~evaluate(q).ok ELSE ~is_terminal_command(q)

\* C17: a non-empty trimmed query that leaves mode Apps through an
\* application search never leaves an empty result list: when no application
\* matches, the results are the three SearchQuery candidates youtube, google,
\* chatgpt, in that order, each with the trimmed query.
C17_NeverEmpty ==
    (event = "changed" /\ AnsweredByAppSearch(query)) =>
        /\ current_mode = "Apps"
        /\ results # <<>>
        /\ AppSearch(app_launcher, query, sorter) = <<>> => results = SearchFallback(query)

\* the calculator rule fell back to an application search that found nothing
C17_DeadEnd ==
    /\ event = "changed" /\ query = "2+" /\ is_calculation(query) /\ ~evaluate(query).ok
    /\ AppSearch(app_launcher, query, sorter) = <<>>
    /\ current_mode = "Apps" /\ results = <<>>

\* what holds of C17: the default rule never leaves an empty list
DefaultRuleNeverEmpty ==
    (event = "changed" /\ AnsweredByAppSearch(query) /\ ~is_calculation(query)) =>
        /\ current_mode = "Apps"
        /\ results # <<>>
        /\ AppSearch(app_launcher, query, sorter) = <<>> => results = SearchFallback(query)

\* C18: a trimmed query that none of the rules before the terminal rule takes
\* (it is not empty, no settings, window-switch, search or emoji query, and it
\* fails the calculation heuristic) and whose first word is on the command
\* allow-list, or which begins with "> " or "$ ", leaves mode Terminal and
\* exactly one TerminalCommand whose text is the trimmed query, marker included.
C18_TerminalCommandVerbatim ==
    (event = "changed" /\ ReachesCalculator(query) /\ ~is_calculation(query)
        /\ (\/ FirstWord(query) \in terminal_commands
            \/ StartsWith(query, "> ")
            \/ StartsWith(query, "$ ")))
    => /\ current_mode = "Terminal"
       /\ results = <<[kind |-> "TerminalCommand", text |-> query]>>

\* a command behind the prompt marker "$ " is kept with its marker
C18_PromptMarkerKept ==
    event = "changed" /\ query = "$ ls" /\ current_mode = "Terminal"
    /\ Len(results) = 1 /\ results[1].text = "$ ls"

EmojiPrefixes == {"emoji ", ":"}

\* C19 as stated: for every remainder r the texts "emoji " + r and ":" + r
\* both leave mode Emoji and the same results, the emoji search of r.
C19_EveryRemainder ==
    event = "changed" =>
        \A r \in Remainders : \A pre \in EmojiPrefixes :
            query = Trim(pre \o r) =>
                /\ current_mode = "Emoji"
                /\ results = EmojiItems(EmojiSearch(load_emojis, r))

\* C19: for every remainder r that is not empty or whitespace-only the texts
\* "emoji " + r and ":" + r both leave mode Emoji and the same results, the
\* emoji search of r without its trailing whitespace.  For an empty or
\* whitespace-only r, ":" + r leaves mode Emoji and the emoji search of the
\* empty text, while "emoji " + r is trimmed to the word "emoji", no emoji
\* query, and leaves mode Apps.
C19_RemainderWithText ==
    event = "changed" =>
        \A r \in Remainders : \A pre \in EmojiPrefixes :
            query = Trim(pre \o r) =>
                IF Trim(r) # "" \/ pre = ":"
                THEN /\ current_mode = "Emoji"
                     /\ results = EmojiItems(EmojiSearch(load_emojis, TrimEnd(r)))
                ELSE /\ query = "emoji"
                     /\ current_mode = "Apps"

\* "emoji fire" was answered by the emoji search of "fire"
C19_EmojiFire ==
    /\ event = "changed" /\ query = "emoji fire" /\ current_mode = "Emoji"
    /\ results # <<>>
    /\ results = EmojiItems(EmojiSearch(load_emojis, "fire"))
    /\ results = update_query(State, ":fire", NoProbe, NoProbe, sorter).results

(***************************************************************************)
(* The window backends (C20)                                               *)
(***************************************************************************)
\* the backend answer b lists at least one window
BackendLists(b) == b.kind = "ok" /\ b.windows # <<>>

\* the backend named b was run by the last enumeration
Asked(b) == \E i \in 1..Len(found.asked) : found.asked[i] = b

\* C20 as stated: the enumeration stops at the first backend that lists a
\* non-empty set: when window_calls lists a window, wmctrl and xdotool are
\* not run and add nothing; a backend that fails or lists nothing passes on
\* to the next one.
C20_FirstBackendWins ==
    found.kind = "enumerate" =>
        LET env == found.env
        IN  IF BackendLists(env.window_calls)
            THEN /\ found.ok /\ found.out = env.window_calls.windows
                 /\ ~Asked("wmctrl") /\ ~Asked("xdotool")
            ELSE IF BackendLists(env.wmctrl)
            THEN found.ok /\ found.out = env.wmctrl.windows /\ ~Asked("xdotool")
            ELSE IF BackendLists(env.xdotool)
            THEN found.ok /\ found.out = env.xdotool.windows
            ELSE ~found.ok

\* the windows of window_calls, then those of wmctrl whose (title,
\* application name) no window of window_calls has
MergedWindows(env) ==
    LET native == IF env.window_calls.kind = "ok" THEN env.window_calls.windows ELSE <<>>
        x11 == IF env.wmctrl.kind = "ok" THEN env.wmctrl.windows ELSE <<>>
    IN  native \o SelectSeq(x11, LAMBDA w :
                      \A i \in 1..Len(native) :
                          <<native[i].title, native[i].app_name>> # <<w.title, w.app_name>>)

\* C20: the enumeration always runs window_calls and, when wmctrl is
\* installed, wmctrl as well, whatever window_calls listed, and merges the
\* two lists, dropping a wmctrl window whose (title, application name) is
\* already listed.  Only xdotool is a fallback: it is run when the merged
\* list is empty, and its non-empty list is then the result; a backend that
\* fails or lists nothing adds nothing, and the enumeration fails when every
\* list is empty.
C20_MergeThenFallback ==
    found.kind = "enumerate" =>
        LET env == found.env
            merged == MergedWindows(env)
        IN  /\ Asked("window_calls")
            /\ Asked("wmctrl") <=> env.wmctrl.kind # "absent"
            /\ Asked("xdotool") <=> (merged = <<>> /\ env.xdotool.kind # "absent")
            /\ IF merged # <<>> THEN found.ok /\ found.out = merged
               ELSE IF BackendLists(env.xdotool)
               THEN found.ok /\ found.out = env.xdotool.windows
               ELSE ~found.ok /\ found.out = <<>>

\* window_calls listed a window, wmctrl was run all the same and its windows
\* were added, those already listed left out
C20_BothBackendsMerged ==
    /\ found.kind = "enumerate"
    /\ found.env.window_calls = Listed(<<WinFirefox>>)
    /\ found.env.wmctrl = Listed(<<WinFirefox, WinKitty, WinFirefox2>>)
    /\ found.asked = <<"window_calls", "wmctrl">>
    /\ found.out = <<WinFirefox, WinKitty>>

(***************************************************************************)
(* A failed enumeration (C21)                                              *)
(***************************************************************************)
\* C21: get_open_windows never succeeds with an empty list: whatever the
\* backends answer, each call update_query makes returns Ok with at least
\* one window or Err; so update_query never shows the "info" candidate, and
\* when the call that decides fails, the result is the one "error" candidate.
C21_NoEmptySuccess ==
    event = "changed" =>
        /\ \A i \in 1..Len(probes) :
               IF probes[i].ok THEN probes[i].windows # <<>> ELSE probes[i].windows = <<>>
        /\ \A i \in 1..Len(results) :
               results[i].kind = "SearchQuery" => results[i].engine # "info"
        /\ (probes # <<>> /\ ~probes[Len(probes)].ok)
               => /\ Len(results) = 1
                  /\ results[1].kind = "SearchQuery"
                  /\ results[1].engine = "error"

\* both calls of a window-switch query failed and the error candidate is shown
C21_ErrorCandidateShown ==
    /\ event = "changed" /\ query = "sw" /\ Len(probes) = 2
    /\ ~probes[1].ok /\ ~probes[2].ok
    /\ Len(results) = 1 /\ results[1].engine = "error"

(***************************************************************************)
(* WindowSwitcher::switch_to_window (src/window_switcher.rs).  A command   *)
(* that is run cannot be spawned, exits with a failure, or succeeds.       *)
(***************************************************************************)
HexDigits == "0123456789abcdef"

\* the identifiers of the model have at most this many digits, or too many
\* for a u64
MaxIdDigits == 9

\* str::parse::<u64>: an optional '+', then digits; None when it fails
parse_u64(s) ==
    LET body == IF StartsWith(s, "+") THEN StripPrefix(s, "+") ELSE s
    IN  IF body # "" /\ DigitRun(body, 1) = Len(body) /\ Len(body) <= MaxIdDigits
        THEN Some(DigitsValue(body, 1, Len(body)))
        ELSE None

RECURSIVE HexValue(_, _)
\* the value of the first k characters of s as hexadecimal digits
HexValue(s, k) ==
    IF k = 0 THEN 0
    ELSE HexValue(s, k - 1) * 16 + (IndexIn(LowerChar(CharAt(s, k)), HexDigits) - 1)

\* u64::from_str_radix(s, 16)
from_str_radix(s) ==
    LET body == IF StartsWith(s, "+") THEN StripPrefix(s, "+") ELSE s
    IN  IF body # "" /\ (\A i \in 1..Len(body) : IndexIn(LowerChar(CharAt(body, i)), HexDigits) > 0)
        THEN Some(HexValue(body, Len(body)))
        ELSE None

RECURSIVE LowerHex(_)
\* format!("{:x}", n)
LowerHex(n) ==
    IF n < 16 THEN CharAt(HexDigits, n + 1)
    ELSE LowerHex(n \div 16) \o CharAt(HexDigits, (n % 16) + 1)

Runs == {"spawn_error", "failed", "success"}

Attempt(cmd, arg, outcome) == [cmd |-> cmd, arg |-> arg, outcome |-> outcome]

\* a variant that runs every attempt, whatever the earlier ones returned
RunAll(attempts) == attempts

RECURSIVE UpToSuccess(_)
\* the attempts that are run: each `return Ok(())` ends the function
UpToSuccess(attempts) ==
    IF attempts = <<>> THEN <<>>
    ELSE IF Head(attempts).outcome = "success" THEN <<Head(attempts)>>
    ELSE <<Head(attempts)>> \o UpToSuccess(Tail(attempts))

\* a variant that gives up when the identifier is no decimal number
ActivateOrAbort(window_id, gdbus) ==
    IF ~StartsWith(window_id, "0x") /\ ~StartsWith(window_id, "wayland:")
    THEN IF parse_u64(window_id) # None
         THEN [abort |-> FALSE,
               attempts |-> <<Attempt("Activate", ToString(UnwrapOr(parse_u64(window_id), 0)), gdbus)>>]
         ELSE [abort |-> TRUE, attempts |-> <<>>]
    ELSE [abort |-> FALSE, attempts |-> <<>>]

\* the extension's Activate: for an identifier without the prefix "0x" or
\* "wayland:" that parses as a number
ActivateStep(window_id, gdbus) ==
    IF ~StartsWith(window_id, "0x") /\ ~StartsWith(window_id, "wayland:")
       /\ parse_u64(window_id) # None
    THEN [abort |-> FALSE,
          attempts |-> <<Attempt("Activate", ToString(UnwrapOr(parse_u64(window_id), 0)), gdbus)>>]
    ELSE [abort |-> FALSE, attempts |-> <<>>]

\* the identifier handed to wmctrl
WmctrlId(window_id) ==
    IF StartsWith(window_id, "0x") THEN window_id
    ELSE IF parse_u64(window_id) # None
    THEN "0x" \o LowerHex(UnwrapOr(parse_u64(window_id), 0))
    ELSE window_id

\* the two calls of wmctrl, when it is installed
WmctrlStep(window_id, wmctrl) ==
    IF wmctrl.has
    THEN <<Attempt("wmctrl -i -a", WmctrlId(window_id), wmctrl.i),
           Attempt("wmctrl -a", WmctrlId(window_id), wmctrl.a)>>
    ELSE <<>>

\* the identifier handed to xdotool: None when the hexadecimal one is malformed
XdotoolId(window_id) ==
    IF StartsWith(WmctrlId(window_id), "0x")
    THEN LET n == from_str_radix(StripPrefix(WmctrlId(window_id), "0x"))
         IN  IF n = None THEN None ELSE Some(ToString(UnwrapOr(n, 0)))
    ELSE Some(window_id)

SwitchOk(ran) == [ok |-> TRUE, ran |-> ran, err |-> ""]
SwitchErr(ran, err) == [ok |-> FALSE, ran |-> ran, err |-> err]

\* the end of switch_to_window, after the attempts `before` have all failed
XdotoolStep(window, before, xdotool) ==
    IF ~xdotool.has THEN SwitchErr(before, "Could not switch to window: " \o window.title)
    ELSE IF XdotoolId(window.window_id) = None THEN SwitchErr(before, "Invalid window ID format")
    ELSE LET try == Attempt("xdotool windowactivate", UnwrapOr(XdotoolId(window.window_id), ""),
                            xdotool.run)
         IN  IF xdotool.run = "success" THEN SwitchOk(before \o <<try>>)
             ELSE IF xdotool.run = "spawn_error"
             THEN SwitchErr(before \o <<try>>, "No such file or directory (os error 2)")
             ELSE SwitchErr(before \o <<try>>, "Could not switch to window: " \o window.title)

\* switch_to_window, given its first step
SwitchFrom(window, env, first) ==
    IF first.abort THEN SwitchErr(<<>>, "Invalid window ID format")
    ELSE LET ran == UpToSuccess(first.attempts \o WmctrlStep(window.window_id, env.wmctrl))
         IN  IF ran # <<>> /\ ran[Len(ran)].outcome = "success" THEN SwitchOk(ran)
             ELSE XdotoolStep(window, ran, env.xdotool)

\* WindowSwitcher::switch_to_window
switch_to_window(window, env) ==
    SwitchFrom(window, env, ActivateStep(window.window_id, env.gdbus))

\* identifiers of every shape: hexadecimal with the prefix, decimal, neither
WindowIds ==
    {"0x03a00003", "0x3A", "0xzz", "0x", "12", "+7", "wayland:3", "abc", "",
     "99999999999999999999999"}

SwitchEnvs ==
    [gdbus : Runs,
     wmctrl : {[has |-> FALSE, i |-> "failed", a |-> "failed"],
               [has |-> TRUE, i |-> "failed", a |-> "failed"],
               [has |-> TRUE, i |-> "spawn_error", a |-> "spawn_error"],
               [has |-> TRUE, i |-> "success", a |-> "success"],
               [has |-> TRUE, i |-> "failed", a |-> "success"]},
     xdotool : {[has |-> FALSE, run |-> "failed"]} \cup [has : {TRUE}, run : Runs]]

\* the Enter key on an OpenWindow result, as far as switch_to_window goes
SwitchToWindow(id, env) ==
    /\ \E r \in {switch_to_window([window_id |-> id, title |-> "Files", app_name |-> "files"], env)} :
           found' = [kind |-> "switch", query |-> id, out |-> r.ran, again |-> FALSE,
                     ok |-> r.ok, err |-> r.err, env |-> env]
    /\ event' = "switch"
    /\ UNCHANGED <<app_launcher, matcher, open_windows, current_mode, results,
                   displayed_results, selected_index, loader, query, probes, fuzzy_calls,
                   sorter, selected_row,
                   mutex, launcher_window>>

InitSwitch == Init /\ sorter = "input" /\ matcher = [pr \in Pairs |-> 1]

NextSwitch == \E id \in WindowIds : \E env \in SwitchEnvs : SwitchToWindow(id, env)

SwitchSpec == InitSwitch /\ [][NextSwitch]_vars

(***************************************************************************)
(* Switching to a window (C22, C23)                                        *)
(***************************************************************************)
\* the place of each activation method in the fixed order
MethodRank(cmd) ==
    IF cmd = "Activate" THEN 1
    ELSE IF cmd = "wmctrl -i -a" THEN 2
    ELSE IF cmd = "wmctrl -a" THEN 3
    ELSE 4

\* the last switch_to_window ran the method cmd
Ran(cmd) == \E i \in 1..Len(found.out) : found.out[i].cmd = cmd

\* the identifier is a decimal number without the prefix "0x" or "wayland:"
IsDecimalId(id) ==
    /\ ~StartsWith(id, "0x") /\ ~StartsWith(id, "wayland:")
    /\ id \in {"12", "+7"}

\* the identifier has the prefix "0x" and no hexadecimal number behind it
IsMalformedHexId(id) == id \in {"0xzz", "0x"}

\* C22: switch_to_window tries the methods in the order Activate (only for
\* an identifier without the prefix "0x" or "wayland:" that is a decimal
\* number), wmctrl -i -a, wmctrl -a, xdotool windowactivate; it returns Ok
\* at the first attempt that succeeds and runs none after it, and it returns
\* Err only when every applicable attempt has failed.
C22_FirstSuccessEndsChain ==
    found.kind = "switch" =>
        LET ran == found.out
            env == found.env
        IN  /\ \A i \in 1..Len(ran) : \A j \in 1..Len(ran) :
                   i < j => MethodRank(ran[i].cmd) < MethodRank(ran[j].cmd)
            /\ Ran("Activate") <=> IsDecimalId(found.query)
            /\ \A i \in 1..Len(ran) : ran[i].outcome = "success" => i = Len(ran)
            /\ found.ok <=> (ran # <<>> /\ ran[Len(ran)].outcome = "success")
            /\ ~found.ok =>
                   /\ env.wmctrl.has => Ran("wmctrl -i -a") /\ Ran("wmctrl -a")
                   /\ (env.xdotool.has /\ ~IsMalformedHexId(found.query))
                          => Ran("xdotool windowactivate")

\* the extension and the first wmctrl call failed, the second wmctrl call
\* succeeded and xdotool was not run
C22_ThirdAttemptSucceeds ==
    /\ found.kind = "switch" /\ found.query = "12" /\ found.ok
    /\ found.env.xdotool.has
    /\ found.out = <<Attempt("Activate", "12", "failed"),
                     Attempt("wmctrl -i -a", "0xc", "failed"),
                     Attempt("wmctrl -a", "0xc", "success")>>

\* the identifier has neither the prefix "0x" nor a decimal value: the
\* conversion to the hexadecimal form that wmctrl takes fails
IsUnconvertibleId(id) == ~StartsWith(id, "0x") /\ ~IsDecimalId(id)

\* the backends that come after the extension and can be run
LaterBackends ==
    (IF found.env.wmctrl.has THEN {"wmctrl -i -a", "wmctrl -a"} ELSE {})
    \cup (IF found.env.xdotool.has /\ ~IsMalformedHexId(found.query)
          THEN {"xdotool windowactivate"} ELSE {})

\* C23 as stated: whatever the shape of the identifier, a conversion that
\* fails does not end switch_to_window: the attempt that needs the converted
\* identifier is left out, and every later backend is still attempted before
\* a failure is returned.
C23_FailedConversionSkips ==
    found.kind = "switch" =>
        /\ ~IsDecimalId(found.query) => ~Ran("Activate")
        /\ IsUnconvertibleId(found.query) => ~Ran("wmctrl -i -a") /\ ~Ran("wmctrl -a")
        /\ IsMalformedHexId(found.query) => ~Ran("xdotool windowactivate")
        /\ (~IsDecimalId(found.query) /\ ~found.ok)
               => \A cmd \in LaterBackends \ {"wmctrl -i -a", "wmctrl -a"} : Ran(cmd)

\* C23: whatever the shape of the identifier, a conversion that fails does
\* not keep a later backend from being attempted.  An identifier that is no
\* decimal number leaves the extension's Activate out; wmctrl is not left
\* out for it but run with the identifier as it is; a malformed hexadecimal
\* identifier makes the xdotool step, the last one, return Err without
\* running xdotool.  Every installed backend that can be run is attempted
\* before a failure is returned.
C23_ChainSurvivesConversion ==
    found.kind = "switch" =>
        /\ ~IsDecimalId(found.query) => ~Ran("Activate")
        /\ IsMalformedHexId(found.query) => ~Ran("xdotool windowactivate")
        /\ IsUnconvertibleId(found.query) =>
               \A i \in 1..Len(found.out) : found.out[i].arg = found.query
        /\ (~IsDecimalId(found.query) /\ ~found.ok) => \A cmd \in LaterBackends : Ran(cmd)
        /\ (~IsDecimalId(found.query) /\ found.ok)
               => \E cmd \in LaterBackends : found.out[Len(found.out)].cmd = cmd

\* an identifier that is no number: Activate was left out, wmctrl and
\* xdotool were run with the identifier as it is, and all failed
C23_UnparsedIdStillTried ==
    /\ found.kind = "switch" /\ found.query = "abc" /\ ~found.ok
    /\ found.out = <<Attempt("wmctrl -i -a", "abc", "failed"),
                     Attempt("wmctrl -a", "abc", "failed"),
                     Attempt("xdotool windowactivate", "abc", "failed")>>

(***************************************************************************)
(* Terminal::get_default_terminal and execute_command (src/terminal.rs).   *)
(* An environment is the value of $TERMINAL, the commands that `which`     *)
(* finds, where x-terminal-emulator lives, and what readlink and gsettings *)
(* answer.  `readlink -f /usr/bin/x-terminal-emulator` prints the target   *)
(* of the link when it is in /usr/bin, and the path itself when no such    *)
(* file exists and x-terminal-emulator is found elsewhere on the PATH.     *)
(***************************************************************************)
common_terminals == <<"gnome-terminal", "konsole", "kitty", "alacritty", "tilix", "xterm">>

\* has_command under the environment env
Installed(env) ==
    env.tools
    \cup (IF env.xte # "absent" THEN {"x-terminal-emulator"} ELSE {})
    \cup (IF env.xte = "usr_bin" THEN {"/usr/bin/kitty"} ELSE {})

\* the standard output of readlink -f /usr/bin/x-terminal-emulator
ReadlinkOutput(env) ==
    IF env.xte = "usr_bin" THEN "/usr/bin/kitty" ELSE "/usr/bin/x-terminal-emulator"

\* str::trim_matches('\'')
RECURSIVE TrimQuotes(_)
TrimQuotes(s) ==
    IF StartsWith(s, "'") THEN TrimQuotes(StripPrefix(s, "'"))
    ELSE IF Len(s) > 0 /\ CharAt(s, Len(s)) = "'" THEN TrimQuotes(SubSeq(s, 1, Len(s) - 1))
    ELSE s

Found(steps, terminal) == [ok |-> TRUE, steps |-> steps, terminal |-> terminal, err |-> ""]

RECURSIVE FirstInstalled(_, _, _)
\* step 4: the first of the well-known terminals that is installed
FirstInstalled(env, steps, names) ==
    IF names = <<>>
    THEN [ok |-> FALSE, steps |-> steps, terminal |-> "", err |-> "No terminal emulator found"]
    ELSE IF Head(names) \in Installed(env) THEN Found(steps \o <<Head(names)>>, Head(names))
    ELSE FirstInstalled(env, steps \o <<Head(names)>>, Tail(names))

\* step 3: the gsettings preference
GsettingsStep(env, steps) ==
    IF env.gsettings.run = "success"
       /\ TrimQuotes(Trim(env.gsettings.out)) # ""
       /\ TrimQuotes(Trim(env.gsettings.out)) \in Installed(env)
    THEN Found(steps \o <<"gsettings">>, TrimQuotes(Trim(env.gsettings.out)))
    ELSE FirstInstalled(env, steps \o <<"gsettings">>, common_terminals)

\* a variant of step 2 that returns what readlink prints only when it is installed
CheckedLinkStep(env, steps) ==
    IF "x-terminal-emulator" \in Installed(env)
    THEN IF env.readlink = "success" /\ Trim(ReadlinkOutput(env)) \in Installed(env)
         THEN Found(steps \o <<"x-terminal-emulator">>, Trim(ReadlinkOutput(env)))
         ELSE Found(steps \o <<"x-terminal-emulator">>, "x-terminal-emulator")
    ELSE GsettingsStep(env, steps \o <<"x-terminal-emulator">>)

\* step 2: x-terminal-emulator, resolved by readlink
LinkStep(env, steps) ==
    IF "x-terminal-emulator" \in Installed(env)
    THEN IF env.readlink = "success" /\ Trim(ReadlinkOutput(env)) # ""
         THEN Found(steps \o <<"x-terminal-emulator">>, Trim(ReadlinkOutput(env)))
         ELSE Found(steps \o <<"x-terminal-emulator">>, "x-terminal-emulator")
    ELSE GsettingsStep(env, steps \o <<"x-terminal-emulator">>)

\* Terminal::get_default_terminal; step 1 is $TERMINAL
get_default_terminal(env) ==
    IF env.TERMINAL # None /\ UnwrapOr(env.TERMINAL, "") # ""
       /\ UnwrapOr(env.TERMINAL, "") \in Installed(env)
    THEN Found(<<"TERMINAL">>, UnwrapOr(env.TERMINAL, ""))
    ELSE LinkStep(env, <<"TERMINAL">>)

\* Terminal::execute_command: what it spawns, and whether the spawn succeeds
execute_command(env) ==
    LET t == get_default_terminal(env)
    IN  IF ~t.ok THEN [ok |-> FALSE, spawned |-> None, err |-> t.err]
        ELSE IF t.terminal \in Installed(env)
        THEN [ok |-> TRUE, spawned |-> Some(t.terminal), err |-> ""]
        ELSE [ok |-> FALSE, spawned |-> Some(t.terminal),
              err |-> "No such file or directory (os error 2)"]

TerminalEnvs ==
    [TERMINAL : {None, Some(""), Some("kitty"), Some("foot")},
     tools : {{}, {"xterm"}, {"kitty", "xterm"}, {"foot"}, {"konsole", "tilix"},
              {"gnome-terminal", "foot"}},
     xte : {"absent", "usr_bin", "elsewhere"},
     readlink : {"spawn_error", "failed", "success"},
     gsettings : {[run |-> "spawn_error", out |-> ""], [run |-> "failed", out |-> ""],
                  [run |-> "success", out |-> "''"], [run |-> "success", out |-> "'foot'"]}]

\* the Enter key on a TerminalCommand result
ExecuteCommand(env) ==
    /\ \E t \in {get_default_terminal(env)} : \E r \in {execute_command(env)} :
           found' = [kind |-> "terminal", query |-> "", out |-> t.steps, again |-> FALSE,
                     ok |-> t.ok, terminal |-> t.terminal, err |-> t.err,
                     spawned |-> r.spawned, env |-> env]
    /\ event' = "execute"
    /\ UNCHANGED <<app_launcher, matcher, open_windows, current_mode, results,
                   displayed_results, selected_index, loader, query, probes, fuzzy_calls,
                   sorter, selected_row,
                   mutex, launcher_window>>

NextTerminal == \E env \in TerminalEnvs : ExecuteCommand(env)

TerminalSpec == InitSwitch /\ [][NextTerminal]_vars

(***************************************************************************)
(* Terminal discovery (C24)                                                *)
(***************************************************************************)
\* the steps of the discovery in their fixed order
DiscoveryOrder == <<"TERMINAL", "x-terminal-emulator", "gsettings">> \o common_terminals

\* C24: the discovery tries $TERMINAL, x-terminal-emulator, the gsettings
\* preference, then gnome-terminal, konsole, kitty, alacritty, tilix, xterm,
\* each step only after every earlier one gave no terminal; the value it
\* returns is always an installed terminal; and it returns Err("No terminal
\* emulator found") exactly when no step gives one, and then execute_command
\* spawns nothing.
C24_ReturnsInstalledTerminal ==
    found.kind = "terminal" =>
        /\ found.out = SubSeq(DiscoveryOrder, 1, Len(found.out))
        /\ found.ok => found.terminal \in Installed(found.env)
        /\ ~found.ok => /\ found.out = DiscoveryOrder
                        /\ found.err = "No terminal emulator found"
                        /\ found.spawned = None
        /\ found.ok => found.spawned = Some(found.terminal)

\* x-terminal-emulator is on the PATH but not in /usr/bin: the discovery
\* returns the path readlink printed, which names no file
C24_MissingPathReturned ==
    /\ found.kind = "terminal" /\ found.ok
    /\ found.env.xte = "elsewhere" /\ found.env.readlink = "success"
    /\ found.terminal = "/usr/bin/x-terminal-emulator"
    /\ found.terminal \notin Installed(found.env)
    /\ "xterm" \in Installed(found.env)

\* what holds of C24: the order of the steps, and the failure exactly when
\* no step gives a terminal
DiscoveryOrderKept ==
    found.kind = "terminal" =>
        /\ found.out = SubSeq(DiscoveryOrder, 1, Len(found.out))
        /\ ~found.ok <=> (found.out = DiscoveryOrder
                           /\ common_terminals[Len(common_terminals)] \notin Installed(found.env))
        /\ ~found.ok => found.err = "No terminal emulator found" /\ found.spawned = None
        /\ (found.ok /\ found.out[Len(found.out)] # "x-terminal-emulator")
               => found.terminal \in Installed(found.env)

(***************************************************************************)
(* The key-pressed handler of the entry (src/ui.rs): the arrow keys move   *)
(* selected_index over the emoji grid and the selected row over the list.  *)
(***************************************************************************)
columns == 8

saturating_sub(a, b) == IF a >= b THEN a - b ELSE 0

\* a variant of Down that does not stop at the last cell
RowBelow(i, n) == i + columns

\* Down in the grid: one row down, at most the last cell
GridDown(i, n) == Min(i + columns, saturating_sub(n, 1))

\* Up in the grid: one row up, at least the first cell
GridUp(i, n) == saturating_sub(i, columns)

\* Right in the grid: the next cell, or the start of the next row from the last
\* column when that row exists
GridRight(i, n) ==
    LET max_index == saturating_sub(n, 1)
        current_row == i \div columns
        current_col == i % columns
    IN  IF current_col = columns - 1
        THEN IF (current_row + 1) * columns <= max_index
             THEN (current_row + 1) * columns ELSE i
        ELSE Min(i + 1, max_index)

\* a variant of Left that never leaves the row
StayInRow(i, n) == IF i % columns = 0 THEN i ELSE saturating_sub(i, 1)

\* Left in the grid: the cell before, or the end of the row above from the
\* first column when there is a row above
GridLeft(i, n) ==
    LET current_row == i \div columns
        current_col == i % columns
    IN  IF current_col = 0
        THEN IF current_row > 0
             THEN Min(current_row * columns - 1, saturating_sub(n, 1)) ELSE i
        ELSE saturating_sub(i, 1)

\* Down in the list: the row below the selected one, or the first row
ListDown(row, n) ==
    IF row # None THEN Some(Min(UnwrapOr(row, 0) + 1, n - 1)) ELSE Some(0)

\* Up in the list: the row above the selected one, or the last row
ListUp(row, n) ==
    IF row # None
    THEN IF UnwrapOr(row, 0) > 0 THEN Some(UnwrapOr(row, 0) - 1) ELSE row
    ELSE Some(saturating_sub(n, 1))

\* what a key press leaves alone; found records whether it left the selection
\* off the first cell
KeyFrame ==
    /\ found' = [kind |-> "key", query |-> "", out |-> <<>>, again |-> FALSE,
                 moved |-> selected_index' > 0]
    /\ UNCHANGED <<app_launcher, matcher, open_windows, current_mode, results,
                   displayed_results, loader, query, probes, fuzzy_calls, sorter, mutex,
                   launcher_window>>

\* gdk::Key::Down | gdk::Key::KP_Down
KeyDown ==
    /\ IF displayed_results # <<>>
       THEN IF current_mode = "Emoji"
            THEN /\ selected_index' = GridDown(selected_index, Len(displayed_results))
                 /\ UNCHANGED selected_row
            ELSE /\ selected_row' = ListDown(selected_row, Len(displayed_results))
                 /\ UNCHANGED selected_index
       ELSE UNCHANGED <<selected_index, selected_row>>
    /\ event' = "down"
    /\ KeyFrame

\* gdk::Key::Up | gdk::Key::KP_Up
KeyUp ==
    /\ IF displayed_results # <<>>
       THEN IF current_mode = "Emoji"
            THEN /\ selected_index' = GridUp(selected_index, Len(displayed_results))
                 /\ UNCHANGED selected_row
            ELSE /\ selected_row' = ListUp(selected_row, Len(displayed_results))
                 /\ UNCHANGED selected_index
       ELSE UNCHANGED <<selected_index, selected_row>>
    /\ event' = "up"
    /\ KeyFrame

\* gdk::Key::Right | gdk::Key::KP_Right
KeyRight ==
    /\ IF current_mode = "Emoji" /\ displayed_results # <<>>
       THEN selected_index' = GridRight(selected_index, Len(displayed_results))
       ELSE UNCHANGED selected_index
    /\ event' = "right"
    /\ UNCHANGED selected_row
    /\ KeyFrame

\* gdk::Key::Left | gdk::Key::KP_Left
KeyLeft ==
    /\ IF current_mode = "Emoji" /\ displayed_results # <<>>
       THEN selected_index' = GridLeft(selected_index, Len(displayed_results))
       ELSE UNCHANGED selected_index
    /\ event' = "left"
    /\ UNCHANGED selected_row
    /\ KeyFrame

\* what the user types between key presses
KeyTexts == {"", ":", ":fire", ":co", "fox", "2+2"}

NextKeys ==
    \/ \E text \in KeyTexts : EntryChanged(text)
    \/ LoadLanded
    \/ KeyDown
    \/ KeyUp
    \/ KeyRight
    \/ KeyLeft

KeySpec == Init /\ [][NextKeys]_vars

(***************************************************************************)
(* The selection stays inside what is displayed (C25)                      *)
(***************************************************************************)
\* C25: in every state reached by query changes and Up/Down/Left/Right keys,
\* in the list or in the emoji grid, selected_index is below the number of
\* displayed results when there are any, and is 0 when there are none.
C25_SelectionInRange ==
    /\ displayed_results # <<>> => selected_index < Len(displayed_results)
    /\ displayed_results = <<>> => selected_index = 0

\* Down was pressed on the second row of a grid whose third row is short:
\* the selection stopped on the last cell
C25_ClampedToLastCell ==
    /\ event = "down" /\ current_mode = "Emoji"
    /\ Len(displayed_results) = EmojiCap
    /\ selected_index = Len(displayed_results) - 1

(***************************************************************************)
(* A query change resets the selection (C26)                               *)
(***************************************************************************)
\* C26: every query-change event sets selected_index to 0, whatever it was
\* before and whether or not the mode or the results changed.
C26_QueryChangeResetsSelection == [][event' = "changed" => selected_index' = 0]_vars

\* a key press had moved the selection off the first cell of the grid, and the
\* query change that followed, to the same emoji query, put it back
C26_ResetAfterMove ==
    /\ event = "changed" /\ found.kind = "key" /\ found.moved
    /\ current_mode = "Emoji" /\ Len(displayed_results) = EmojiCap
    /\ selected_index = 0

(***************************************************************************)
(* What is displayed is the capped front of the results (C27)              *)
(***************************************************************************)
\* the display budget of the mode
Cap == IF current_mode = "Emoji" THEN emoji_limit ELSE max_results

\* C27: after every query-change event displayed_results is the first
\* min(cap, |results|) entries of results in their order, with cap 24 in Emoji
\* mode and 5 otherwise; at every other moment displayed_results is still a
\* prefix of results.
C27_DisplayedIsCappedPrefix ==
    /\ event = "changed" =>
           displayed_results = SubSeq(results, 1, Min(Cap, Len(results)))
    /\ Len(displayed_results) <= Len(results)
    /\ displayed_results = SubSeq(results, 1, Len(displayed_results))

\* twenty applications were found and five of them are displayed
C27_FiveOfTwenty ==
    /\ event = "changed" /\ current_mode = "Apps"
    /\ Len(results) = AppCap /\ Len(displayed_results) = max_results

(***************************************************************************)
(* The emoji grid (C28)                                                    *)
(***************************************************************************)
\* the emoji the sub-query of q lets through: all of them when it is empty,
\* those with a positive score otherwise
Eligible(q) ==
    LET sub == StripEither(q, "emoji ", ":")
    IN  IF sub = "" THEN {i \in 1..Len(load_emojis) : TRUE}
        ELSE {i \in 1..Len(load_emojis) : EmojiScore(load_emojis[i], ToLowercase(sub)) > 0}

\* C28: in Emoji mode, when at least 24 emoji are eligible (":" with an empty
\* sub-query over the 42 built-in emoji), exactly 24 emoji are displayed,
\* 3 rows of 8.
C28_FullGridDisplayed ==
    (event = "changed" /\ current_mode = "Emoji"
        /\ Cardinality(Eligible(query)) >= emoji_limit)
        => Len(displayed_results) = emoji_limit

\* ":" was typed: all 42 emoji are eligible and 20 are displayed, the last row
\* of the grid holding 4
C28_TwentyDisplayed ==
    /\ event = "changed" /\ current_mode = "Emoji" /\ query = ":"
    /\ Cardinality(Eligible(query)) = Len(load_emojis)
    /\ Len(load_emojis) >= emoji_limit
    /\ Len(displayed_results) = EmojiCap
    /\ Len(displayed_results) % columns = 4

(***************************************************************************)
(* The one replacement of the application collection (C29)                 *)
(***************************************************************************)
\* the results of an update_query that ended in mode Apps come from a search
\* of the collection apps, and none of them reports an error
SearchedCollection(apps) ==
    /\ ~IsSettingsQuery(query) =>
           IF AppSearch(apps, query, sorter) # <<>>
           THEN results = AppItems(AppSearch(apps, query, sorter))
           ELSE results \in {<<>>, SearchFallback(query)}
    /\ \A i \in 1..Len(results) :
           results[i].kind = "SearchQuery" => results[i].engine \notin {"error", "info"}

\* C29: the background scan replaces the initially empty application
\* collection at most once, in a step of its own between the handlers; every
\* update_query after the replacement searches the loaded collection, and
\* every update_query before it searches the empty collection and reports no
\* error.
C29_ReplacedOnce ==
    /\ [][app_launcher' # app_launcher =>
              /\ loader = "scanning" /\ loader' = "done" /\ event' = "loaded"
              /\ app_launcher = <<>> /\ app_launcher' \in LoadedCollections]_vars
    /\ [][loader = "done" => loader' = "done"]_vars
    /\ []((event = "changed" /\ current_mode = "Apps" /\ loader = "done")
             => app_launcher # <<>> /\ SearchedCollection(app_launcher))
    /\ []((event = "changed" /\ current_mode = "Apps" /\ loader = "scanning")
             => app_launcher = <<>> /\ SearchedCollection(<<>>))

\* "fox" was typed after the scan had landed: the applications found are shown
C29_LoadedCollectionSearched ==
    /\ event = "changed" /\ loader = "done" /\ query = "fox" /\ current_mode = "Apps"
    /\ Len(app_launcher) = MaxApps
    /\ Len(results) = AppCap /\ results[1].kind = "App"

(***************************************************************************)
(* Mode Apps before the scan has landed (C30)                              *)
(***************************************************************************)
\* C30 as stated: until the replacement of the application collection lands,
\* every query that ends in mode Apps leaves an empty result list.
C30_EmptyBeforeLoad ==
    (event = "changed" /\ loader = "scanning" /\ current_mode = "Apps") => results = <<>>

\* C30: until the replacement of the application collection lands, a query
\* that ends in mode Apps finds no application, so no result is an App: the
\* results are empty for the empty query and for a calculation that fails to
\* evaluate, the one Settings entry for a settings query, and otherwise the
\* three SearchQuery candidates youtube, google, chatgpt with the trimmed query.
C30_NoAppBeforeLoad ==
    (event = "changed" /\ loader = "scanning" /\ current_mode = "Apps") =>
        /\ \A i \in 1..Len(results) : results[i].kind # "App"
        /\ IF query = "" THEN results = <<>>
           ELSE IF IsSettingsQuery(query) THEN results = <<SettingsItem>>
           ELSE IF is_calculation(query) THEN results = <<>>
           ELSE /\ Len(results) = 3
                /\ \A i \in 1..3 : results[i].kind = "SearchQuery" /\ results[i].query = query
                /\ <<results[1].engine, results[2].engine, results[3].engine>>
                       = <<"youtube", "google", "chatgpt">>

\* "fox" was typed while the scan was still running: the three web searches
\* are offered
C30_FallbackBeforeLoad ==
    /\ event = "changed" /\ loader = "scanning" /\ app_launcher = <<>>
    /\ query = "fox" /\ current_mode = "Apps"
    /\ results = <<SearchQuery("youtube", "fox"), SearchQuery("google", "fox"),
                   SearchQuery("chatgpt", "fox")>>

(***************************************************************************)
(* LauncherState::execute_selected and the Enter key (src/ui.rs).  An      *)
(* environment says how the tool the candidate needs runs (gio, xclip,     *)
(* xdotool type, xdg-open), how the fallback runs (the Exec line, the      *)
(* browsers), and what the window and terminal collaborators find.         *)
(***************************************************************************)
Executed(invoked, served) == [ok |-> TRUE, err |-> "", invoked |-> invoked, served |-> served]
ExecuteErr(err, invoked) == [ok |-> FALSE, err |-> err, invoked |-> invoked, served |-> FALSE]

\* index >= self.displayed_results.len()
OutOfBounds(index, n) == index >= n

\* AppLauncher::launch: gio launch, then the Exec line
launch(env) ==
    IF env.tool # "spawn_error" THEN Executed(<<"gio launch">>, env.tool = "success")
    ELSE IF env.fallback = "spawn_error"
    THEN ExecuteErr("No such file or directory (os error 2)", <<"gio launch", "exec">>)
    ELSE Executed(<<"gio launch", "exec">>, env.fallback = "success")

\* the CalculatorResult arm: xclip is spawned and the result written to it
copy_to_clipboard(env) ==
    IF env.tool = "spawn_error"
    THEN ExecuteErr("No such file or directory (os error 2)", <<"xclip">>)
    ELSE Executed(<<"xclip">>, env.tool = "success")

\* EmojiPicker::insert_emoji: xdotool type, its exit status not read
insert_emoji(env) ==
    IF env.tool = "spawn_error"
    THEN ExecuteErr("No such file or directory (os error 2)", <<"xdotool type">>)
    ELSE Executed(<<"xdotool type">>, env.tool = "success")

\* WebSearch::open_url: xdg-open, then the browsers
open_url(env) ==
    IF env.tool # "spawn_error" THEN Executed(<<"xdg-open">>, env.tool = "success")
    ELSE IF env.fallback # "spawn_error"
    THEN Executed(<<"xdg-open", "browser">>, env.fallback = "success")
    ELSE ExecuteErr("Could not open browser", <<"xdg-open", "browser">>)

\* Terminal::execute_command as execute_selected sees it
run_terminal(env) ==
    LET t == execute_command(env.terminal)
    IN  IF t.ok THEN Executed(<<"terminal">>, TRUE)
        ELSE ExecuteErr(t.err, IF t.spawned = None THEN <<>> ELSE <<"terminal">>)

\* WindowSwitcher::switch_to_window as execute_selected sees it
run_switch(w, env) ==
    LET r == switch_to_window(w, env.switch)
    IN  IF r.ok THEN Executed([i \in 1..Len(r.ran) |-> r.ran[i].cmd], TRUE)
        ELSE ExecuteErr(r.err, [i \in 1..Len(r.ran) |-> r.ran[i].cmd])

\* LauncherState::execute_selected; index counts from 0
execute_selected(displayed, index, env) ==
    IF OutOfBounds(index, Len(displayed)) THEN ExecuteErr("Index out of bounds", <<>>)
    ELSE LET item == displayed[index + 1]
         IN  CASE item.kind = "App" -> launch(env)
               [] item.kind = "CalculatorResult" -> copy_to_clipboard(env)
               [] item.kind = "Emoji" -> insert_emoji(env)
               [] item.kind = "TerminalCommand" -> run_terminal(env)
               [] item.kind = "SearchQuery" ->
                      IF item.engine \in {"youtube", "chatgpt", "google"} THEN open_url(env)
                      ELSE Executed(<<>>, FALSE)
               [] item.kind = "OpenWindow" -> run_switch(item.window, env)
               [] item.kind = "Settings" -> Executed(<<>>, FALSE)

\* the environments of an activation
SwitchSamples ==
    {e \in SwitchEnvs : /\ e.gdbus \in {"failed", "success"}
                        /\ e.wmctrl.i = e.wmctrl.a /\ e.wmctrl.i \in {"failed", "success"}
                        /\ ~e.xdotool.has}

TerminalSamples ==
    {e \in TerminalEnvs : /\ e.TERMINAL = Some("kitty") /\ e.tools \in {{}, {"kitty", "xterm"}}
                          /\ e.xte = "absent" /\ e.readlink = "failed"
                          /\ e.gsettings.run = "failed"}

\* every way the tools can run with collaborators that find nothing, and every
\* sampled collaborator with tools that run
ActivateEnvs ==
    {e \in [tool : Runs, fallback : Runs, switch : SwitchSamples, terminal : TerminalSamples] :
        \/ e.switch.gdbus = "failed" /\ e.switch.wmctrl.i = "failed" /\ e.terminal.tools = {}
        \/ e.tool = "success" /\ e.fallback = "success"}

ActivateFrame ==
    UNCHANGED <<app_launcher, matcher, open_windows, current_mode, results,
                displayed_results, selected_index, loader, query, probes, fuzzy_calls,
                sorter, selected_row, mutex>>

\* what an activation did: the index it used, whether execute_selected was called
\* and what it returned, whether the settings window was opened
Activation(index, called, r, settings) ==
    [kind |-> "activate", query |-> "", out |-> r.invoked, again |-> FALSE,
     index |-> index, called |-> called, ok |-> r.ok, err |-> r.err, served |-> r.served,
     settings |-> settings]

\* entry.connect_activate: the Enter key
Activate(env) ==
    /\ launcher_window = "open"
    /\ IF displayed_results = <<>>
       THEN /\ found' = Activation(0, FALSE, Executed(<<>>, FALSE), FALSE)
            /\ UNCHANGED launcher_window
       ELSE LET index == IF current_mode = "Emoji" THEN selected_index
                         ELSE UnwrapOr(selected_row, 0)
            IN  IF index < Len(displayed_results) /\ displayed_results[index + 1].kind = "Settings"
                THEN /\ found' = Activation(index, FALSE, Executed(<<>>, FALSE), TRUE)
                     /\ launcher_window' = "closed"
                ELSE \E r \in {execute_selected(displayed_results, index, env)} :
                         /\ found' = Activation(index, TRUE, r, FALSE)
                         /\ launcher_window' = IF r.ok THEN "closed" ELSE "open"
    /\ event' = "activate"
    /\ ActivateFrame

\* list_box.connect_row_activated: a click on a row of the list
RowActivated(row, env) ==
    /\ launcher_window = "open"
    /\ current_mode # "Emoji"
    /\ row < Len(displayed_results)
    /\ \E r \in {execute_selected(displayed_results, row, env)} :
           found' = Activation(row, TRUE, r, FALSE)
    /\ launcher_window' = "closed"
    /\ event' = "row_activated"
    /\ ActivateFrame

\* gdk::Key::Escape
KeyEscape ==
    /\ launcher_window = "open"
    /\ launcher_window' = "closed"
    /\ event' = "escape"
    /\ UNCHANGED found
    /\ ActivateFrame

ActivateTexts == {"", ":fire", "fox", "2+2", "ls -la", "yt cats", "settings", "sw", "zzz"}

NextActivate ==
    \/ launcher_window = "open" /\ \E text \in ActivateTexts : EntryChanged(text)
    \/ launcher_window = "open" /\ LoadLanded
    \/ launcher_window = "open" /\ KeyDown
    \/ launcher_window = "open" /\ KeyRight
    \/ KeyEscape
    \/ \E env \in ActivateEnvs : Activate(env)
    \/ \E env \in ActivateEnvs : \E row \in 0..(max_results - 1) : RowActivated(row, env)

ActivateSpec == InitSwitch /\ [][NextActivate]_vars

(***************************************************************************)
(* The Mutex around the state (src/ui.rs).  Every handler and the closure  *)
(* of the background load begin with state.lock().unwrap() and hold the    *)
(* guard to their end.  Here a handler takes three steps: it takes the     *)
(* guard, it runs, it drops the guard; the closure of the load writes the  *)
(* collection in two steps, so that a reader without the guard could see   *)
(* it half written.                                                        *)
(***************************************************************************)
\* a variant of the lock that is granted whoever holds a guard
no_mutex(holders) == TRUE

\* Mutex::lock returns when no guard is held
try_lock(holders) == holders = {}

Entering == {"enter changed", "enter key", "enter activate"}

LockFrame ==
    UNCHANGED <<matcher, open_windows, current_mode, results, displayed_results,
                selected_index, query, probes, fuzzy_calls, found, sorter, selected_row,
                launcher_window>>

\* a handler on the main thread takes the guard
MainLock(entering) ==
    /\ launcher_window = "open"
    /\ "main" \notin mutex /\ try_lock(mutex)
    /\ mutex' = mutex \cup {"main"}
    /\ event' = entering
    /\ UNCHANGED <<app_launcher, loader>>
    /\ LockFrame

\* the handler returns and its guard is dropped
MainUnlock ==
    /\ "main" \in mutex /\ event \notin Entering
    /\ mutex' = mutex \ {"main"}
    /\ UNCHANGED <<app_launcher, loader, event>>
    /\ LockFrame

\* the closure of the background load takes the guard
LoaderLock ==
    /\ loader = "scanning" /\ "loader" \notin mutex /\ try_lock(mutex)
    /\ mutex' = mutex \cup {"loader"}
    /\ UNCHANGED <<app_launcher, loader, event>>
    /\ LockFrame

\* set_app_launcher has begun to write the collection
LoaderWrite ==
    /\ loader = "scanning" /\ "loader" \in mutex
    /\ \E entries \in ScanResults : app_launcher' = Take(AppLauncherNew(entries, sorter), 1)
    /\ loader' = "writing"
    /\ UNCHANGED <<mutex, event>>
    /\ LockFrame

\* set_app_launcher has written the collection; the closure drops its guard
LoaderUnlock ==
    /\ loader = "writing" /\ "loader" \in mutex
    /\ \E entries \in ScanResults :
           /\ Take(AppLauncherNew(entries, sorter), 1) = app_launcher
           /\ app_launcher' = AppLauncherNew(entries, sorter)
    /\ loader' = "done"
    /\ event' = "loaded"
    /\ mutex' = mutex \ {"loader"}
    /\ LockFrame

LockTexts == {"", ":", "fox"}

Holding(entering) == "main" \in mutex /\ event = entering

NextLocked ==
    \/ \E entering \in Entering : MainLock(entering)
    \/ Holding("enter changed") /\ \E text \in LockTexts : EntryChanged(text)
    \/ Holding("enter key") /\ KeyDown
    \/ Holding("enter key") /\ KeyRight
    \/ Holding("enter activate") /\ \E env \in ActivateEnvs : Activate(env)
    \/ MainUnlock
    \/ LoaderLock
    \/ LoaderWrite
    \/ LoaderUnlock

LockSpec == InitSwitch /\ [][NextLocked]_vars

(***************************************************************************)
(* Handlers exclude each other (C31)                                       *)
(***************************************************************************)
\* C31: under every interleaving of the completion of the background load with
\* query-change, key and activation events, the accesses to the state exclude
\* each other: at most one guard is held, so no two handlers change the state
\* at the same time, and a handler that holds the guard sees the whole empty
\* collection or the whole loaded collection, never one half replaced.
C31_HandlersExclude ==
    /\ Cardinality(mutex) <= 1
    /\ "main" \in mutex => loader # "writing"
    /\ "main" \in mutex => app_launcher = <<>> \/ app_launcher \in LoadedCollections

\* the load is half way through writing the collection, after "fox" was
\* typed; the closure holds the only guard
C31_LoadHoldsGuard ==
    /\ loader = "writing" /\ mutex = {"loader"}
    /\ Len(app_launcher) = 1 /\ app_launcher \notin LoadedCollections
    /\ query = "fox" /\ event = "changed"

(***************************************************************************)
(* get_open_windows step by step (src/window_switcher.rs): every tool is   *)
(* run with Command::output, which returns when the tool exits.  A probe   *)
(* waits for gdbus, then wmctrl, then xprop for the lines wmctrl printed,  *)
(* then xdotool when nothing was listed.  `timeout 1 wmctrl` is run only   *)
(* when wmctrl could not be spawned.                                       *)
(***************************************************************************)
Tools == {"gdbus", "wmctrl", "xprop", "xdotool"}

\* what the probe waits for once wmctrl and xprop are through
AfterMerge(env) ==
    IF "xdotool" \in Range(BackendsAsked(env)) THEN "xdotool" ELSE "returned"

AfterWmctrl(p) ==
    IF p.env.wmctrl.kind = "ok" /\ p.env.wmctrl.windows # <<>> /\ p.xprop THEN "xprop"
    ELSE AfterMerge(p.env)

\* the stage after the one the probe p waits in
NextStage(p) ==
    CASE p.waiting = "gdbus" ->
             IF p.env.wmctrl.kind = "absent" THEN AfterMerge(p.env)
             ELSE IF p.spawns THEN "wmctrl" ELSE "timeout"
      [] p.waiting = "wmctrl" -> AfterWmctrl(p)
      [] p.waiting = "timeout" -> AfterMerge(p.env)
      [] p.waiting = "xprop" -> AfterMerge(p.env)
      [] p.waiting = "xdotool" -> "returned"

WaitFrame ==
    UNCHANGED <<app_launcher, matcher, open_windows, current_mode, results,
                displayed_results, selected_index, loader, query, probes, fuzzy_calls,
                sorter, selected_row, mutex, launcher_window>>

\* get_open_windows is called and waits for gdbus; hangs is the tool that
\* never exits, spawns says whether wmctrl can be spawned, xprop whether
\* xprop is installed
StartEnumeration(env, hangs, spawns, xprop) ==
    /\ found.kind # "enumerating"
    /\ ~spawns => env.wmctrl = Failed
    /\ found' = [kind |-> "enumerating", query |-> "", out |-> <<>>, again |-> FALSE,
                 env |-> env, hangs |-> hangs, spawns |-> spawns, xprop |-> xprop,
                 waiting |-> "gdbus"]
    /\ event' = "probe"
    /\ WaitFrame

\* the tool the probe waits for exits, or `timeout` ends it after a second
ToolExits ==
    /\ found.kind = "enumerating"
    /\ found.waiting = "timeout" \/ found.waiting # found.hangs
    /\ \E stage \in {NextStage(found)} :
           IF stage # "returned" THEN found' = [found EXCEPT !.waiting = stage]
           ELSE \E r \in {get_open_windows(found.env)} :
                    found' = [kind |-> "enumerate", query |-> "", out |-> r.windows,
                              again |-> FALSE, ok |-> r.ok, env |-> found.env,
                              asked |-> BackendsAsked(found.env)]
    /\ event' = "tool"
    /\ WaitFrame

NextWait ==
    \/ \E env \in Envs : \E hangs \in Tools \cup {"none"} : \E spawns, xprop \in BOOLEAN :
           StartEnumeration(env, hangs, spawns, xprop)
    \/ ToolExits

\* a tool that can exit does exit
WaitSpec == InitSwitch /\ [][NextWait]_vars /\ WF_vars(ToolExits)

(***************************************************************************)
(* A tool that never exits (C32)                                           *)
(***************************************************************************)
\* C32: window enumeration always ends: when one backend tool (gdbus, wmctrl,
\* xprop or xdotool) never responds, a timeout cuts the probe off and the
\* chain goes on to the next backend, so that the update_query of a
\* window-switch query returns.
C32_EnumerationReturns == (found.kind = "enumerating") ~> (found.kind = "enumerate")

\* the probe waits for a wmctrl that was spawned and never exits
C32_WaitsForWmctrl ==
    /\ found.kind = "enumerating" /\ found.waiting = "wmctrl" /\ found.hangs = "wmctrl"
    /\ found.spawns /\ ~ENABLED ToolExits

\* what holds of C32: a probe whose tools all exit returns
ResponsiveToolsReturn ==
    (found.kind = "enumerating" /\ found.hangs = "none") ~> (found.kind = "enumerate")

(***************************************************************************)
(* What the window backends make of the text their tools print             *)
(* (src/window_switcher.rs).  Texts are indexed by byte in the source: a   *)
(* character of WideChars takes two bytes, and a slice that begins inside  *)
(* it panics.                                                              *)
(***************************************************************************)
WideChars == "é"

CharBytes(c) == IF IndexIn(c, WideChars) > 0 THEN 2 ELSE 1

RECURSIVE ByteLen(_)
\* str::len
ByteLen(s) == IF Len(s) = 0 THEN 0 ELSE CharBytes(CharAt(s, 1)) + ByteLen(SubSeq(s, 2, Len(s)))

\* char::to_uppercase on the ASCII letters
UpperChar(c) ==
    IF IndexIn(c, LowerLetters) > 0 THEN CharAt(UpperLetters, IndexIn(c, LowerLetters)) ELSE c

RECURSIVE BeforeDot(_)
\* split('.').next()
BeforeDot(s) ==
    IF Len(s) = 0 \/ CharAt(s, 1) = "." THEN ""
    ELSE CharAt(s, 1) \o BeforeDot(SubSeq(s, 2, Len(s)))

RECURSIVE Words(_)
\* split_whitespace().collect()
Words(s) ==
    LET t == TrimStart(s)
    IN  IF t = "" THEN <<>>
        ELSE <<TakeToken(t)>> \o Words(SubSeq(t, Len(TakeToken(t)) + 1, Len(t)))

RECURSIVE Join(_)
\* join(" ")
Join(parts) ==
    IF parts = <<>> THEN ""
    ELSE IF Len(parts) = 1 THEN parts[1]
    ELSE parts[1] \o " " \o Join(Tail(parts))

\* str::find and str::rfind of a character: its first and last position, 0 if absent
Find(s, c) ==
    IF \E i \in 1..Len(s) : CharAt(s, i) = c
    THEN CHOOSE i \in 1..Len(s) : CharAt(s, i) = c /\ \A j \in 1..(i - 1) : CharAt(s, j) # c
    ELSE 0

RFind(s, c) ==
    IF \E i \in 1..Len(s) : CharAt(s, i) = c
    THEN CHOOSE i \in 1..Len(s) : CharAt(s, i) = c /\ \A j \in (i + 1)..Len(s) : CharAt(s, j) # c
    ELSE 0

skip_patterns == <<
    "wayland to x recording bridge", "xwayland video bridge", "xwaylandvideobridge",
    "desktop window", "gnome-shell", "mutter", "mutter guard", "notification", "popup",
    "tooltip", "dropdown", "menu", "poppi_launcher", "guard window", "splash", "dock",
    "panel", "tray", "overlay", "compositor" >>

\* a variant of the filter that lets every title with text through
any_title(title, app_name) == Trim(title) # ""

\* WindowSwitcher::should_include_window
should_include_window(title, app_name) ==
    /\ Trim(title) # ""
    /\ \A i \in 1..Len(skip_patterns) :
           /\ ~Contains(ToLowercase(title), skip_patterns[i])
           /\ ~Contains(ToLowercase(app_name), skip_patterns[i])
    /\ ByteLen(Trim(title)) >= 3

Cased(text) == [panic |-> FALSE, text |-> text]
Panicked == [panic |-> TRUE, text |-> ""]

\* the application name get_windows_via_window_calls makes of a wm_class
CalledClassName(c) ==
    LET class_name == BeforeDot(c)
    IN  IF class_name = "" THEN Cased("")
        ELSE IF ByteLen(class_name) > 1
        THEN IF CharBytes(CharAt(class_name, 1)) > 1 THEN Panicked
             ELSE Cased(UpperChar(CharAt(class_name, 1)) \o SubSeq(class_name, 2, Len(class_name)))
        ELSE Cased(UpperChar(CharAt(class_name, 1)))

\* the application name the wmctrl and xdotool backends make of a class name
ListedClassName(c) ==
    LET class_name == BeforeDot(c)
    IN  IF class_name = "" THEN Cased("")
        ELSE IF CharBytes(CharAt(class_name, 1)) > 1 THEN Panicked
        ELSE Cased(UpperChar(CharAt(class_name, 1)) \o SubSeq(class_name, 2, Len(class_name)))

\* title.split_whitespace().next().unwrap_or("Window")
TitleWord(title) == IF FirstWord(title) = "" THEN "Window" ELSE FirstWord(title)

OpenWindow(id, title, app_name) == [window_id |-> id, title |-> title, app_name |-> app_name]

Parse(windows) == [panic |-> FALSE, ok |-> TRUE, windows |-> windows]
ParseErr == [panic |-> FALSE, ok |-> FALSE, windows |-> <<>>]
ParsePanic == [panic |-> TRUE, ok |-> FALSE, windows |-> <<>>]

\* a JSON object of the extension's list: the fields the backend reads
Entry(id, title, wm_class, window_type) ==
    [id |-> id, title |-> title, wm_class |-> wm_class, window_type |-> window_type]

JsonFiles ==
    "[{\"id\":12,\"title\":\"Files\",\"wm_class\":\"org.gnome.Nautilus\",\"window_type\":0}]"
JsonTwo ==
    "[{\"title\":\"Lost\",\"window_type\":0},{\"id\":7,\"title\":\"Fox Notes\",\"window_type\":0}]"
JsonWide == "[{\"id\":9,\"title\":\"Texte\",\"wm_class\":\"éditeur\",\"window_type\":0}]"
JsonPlain == "[{\"id\":5,\"title\":\"Plain\",\"wm_class\":\"\",\"window_type\":0}]"
JsonChrome ==
    "[{\"id\":3,\"title\":\"Dash to Dock\",\"wm_class\":\"gnome-shell\",\"window_type\":0},"
    \o "{\"id\":4,\"title\":\"Volume\",\"wm_class\":\"pavu\",\"window_type\":3},"
    \o "{\"id\":6,\"title\":\"ab\",\"wm_class\":\"term\",\"window_type\":0},"
    \o "{\"id\":8,\"title\":\"Untyped\",\"wm_class\":\"term\"}]"

\* serde_json::from_str::<Vec<Value>> on the texts of the model: the objects of
\* a text that is a JSON array, None for any other text
JsonTable ==
    [t \in {"[]", JsonFiles, JsonTwo, JsonWide, JsonPlain, JsonChrome} |->
        CASE t = "[]" -> <<>>
          [] t = JsonFiles -> <<Entry(Some(12), Some("Files"), Some("org.gnome.Nautilus"), Some(0))>>
          [] t = JsonTwo -> <<Entry(None, Some("Lost"), None, Some(0)),
                              Entry(Some(7), Some("Fox Notes"), None, Some(0))>>
          [] t = JsonWide -> <<Entry(Some(9), Some("Texte"), Some("éditeur"), Some(0))>>
          [] t = JsonPlain -> <<Entry(Some(5), Some("Plain"), Some(""), Some(0))>>
          [] t = JsonChrome -> <<Entry(Some(3), Some("Dash to Dock"), Some("gnome-shell"), Some(0)),
                                 Entry(Some(4), Some("Volume"), Some("pavu"), Some(3)),
                                 Entry(Some(6), Some("ab"), Some("term"), Some(0)),
                                 Entry(Some(8), Some("Untyped"), Some("term"), None)>>]

from_str(text) == IF text \in DOMAIN JsonTable THEN Some(JsonTable[text]) ELSE None

\* the application name of an object: its class made readable, or the first
\* word of its title
CalledAppName(e) ==
    IF e.wm_class # None THEN CalledClassName(UnwrapOr(e.wm_class, ""))
    ELSE Cased(TitleWord(UnwrapOr(e.title, "")))

RECURSIVE CalledWindows(_, _)
\* the loop of get_windows_via_window_calls over the objects, windows so far in acc
CalledWindows(entries, acc) ==
    IF entries = <<>> THEN Parse(acc)
    ELSE LET e == Head(entries)
         IN  IF UnwrapOr(e.window_type, 999) # 0 \/ e.id = None \/ e.title = None
             THEN CalledWindows(Tail(entries), acc)
             ELSE IF CalledAppName(e).panic THEN ParsePanic
             ELSE IF should_include_window(UnwrapOr(e.title, ""), CalledAppName(e).text)
             THEN CalledWindows(Tail(entries),
                                acc \o <<OpenWindow(ToString(UnwrapOr(e.id, 0)),
                                                    UnwrapOr(e.title, ""),
                                                    CalledAppName(e).text)>>)
             ELSE CalledWindows(Tail(entries), acc)

\* a variant of the slice that is empty when ']' comes before '['
CheckedSlice(stdout, start, end) ==
    IF start > end THEN Cased("") ELSE Cased(SubSeq(stdout, start, end))

\* &stdout[start..=end]
Slice(stdout, start, end) ==
    IF start > end + 1 THEN Panicked ELSE Cased(SubSeq(stdout, start, end))

\* WindowSwitcher::get_windows_via_window_calls on what gdbus did and printed
get_windows_via_window_calls(output) ==
    IF output.run # "success" THEN Parse(<<>>)
    ELSE IF Find(output.stdout, "[") = 0 \/ RFind(output.stdout, "]") = 0 THEN Parse(<<>>)
    ELSE LET json_str == Slice(output.stdout, Find(output.stdout, "["), RFind(output.stdout, "]"))
         IN  IF json_str.panic THEN ParsePanic
             ELSE IF from_str(json_str.text) = None THEN Parse(<<>>)
             ELSE CalledWindows(UnwrapOr(from_str(json_str.text), <<>>), <<>>)

Output(run, stdout) == [run |-> run, stdout |-> stdout]

GdbusOutputs ==
    {Output("spawn_error", ""), Output("failed", "")}
    \cup {Output("success", "('" \o j \o "',)") : j \in DOMAIN JsonTable}
    \cup {Output("success", t) : t \in {"()", "] error [", "][", "('[{\"id\":12,]',)"}}

line_limit == 100
id_limit == 50

\* the application name of a line of wmctrl -l -x
ListedAppName(wm_class, title) ==
    IF wm_class # "" /\ ~Contains(wm_class, "xwaylandvideobridge") THEN ListedClassName(wm_class)
    ELSE Cased(TitleWord(title))

RECURSIVE ListedWindows(_, _, _)
\* the loop of get_windows_wmctrl_filtered over the lines; xprop reports the
\* identifiers in typed as neither normal windows nor dialogs
ListedWindows(lines, typed, acc) ==
    IF lines = <<>> THEN Parse(acc)
    ELSE LET parts == Words(Head(lines))
         IN  IF Len(parts) < 4 THEN ListedWindows(Tail(lines), typed, acc)
             ELSE LET title == Join(SubSeq(parts, 4, Len(parts)))
                      app_name == ListedAppName(parts[3], title)
                  IN  IF app_name.panic THEN ParsePanic
                      ELSE IF parts[1] \notin typed /\ should_include_window(title, app_name.text)
                      THEN ListedWindows(Tail(lines), typed,
                                         acc \o <<OpenWindow(parts[1], title, app_name.text)>>)
                      ELSE ListedWindows(Tail(lines), typed, acc)

\* WindowSwitcher::get_windows_wmctrl_filtered on what wmctrl did and printed;
\* when wmctrl cannot be spawned, `timeout 1 wmctrl` cannot run it either
get_windows_wmctrl_filtered(output) ==
    IF output.run # "success" THEN ParseErr
    ELSE ListedWindows(Take(output.lines, line_limit), output.typed, <<>>)

Listing(run, lines, typed) == [run |-> run, lines |-> lines, typed |-> typed]

LineFirefox == "0x03a00003  0 firefox.Firefox  host Mozilla Firefox"
LineFiles == "0x03a00021  0 org.gnome.Nautilus  Files"
LineShort == "0x03a00005  0 kitty.kitty"
LineWide == "0x03a00007  0 éditeur.Editeur  host Texte"
LineHidden == "0x03a00009  0 .hidden  host Plain"
LinePanel == "0x03a0000b -1 xfce4-panel.Xfce4-panel  host top bar"
LineTiny == "0x03a0000d  0 kitty.kitty  ab"
LineFox == "0x03a0000f  0 fox.Fox  Fox Notes"

WmctrlOutputs ==
    {Listing("absent", <<>>, {}), Listing("failed", <<>>, {}),
     Listing("success", <<LineFox, LineFirefox, LineShort, LineFox>>, {}),
     Listing("success", <<LineFirefox, LineFiles>>, {"0x03a00003"}),
     Listing("success", <<LineShort, LineWide, LineFirefox>>, {}),
     Listing("success", <<LineHidden, LinePanel, LineTiny>>, {})}

\* the application name of a window xdotool found
SearchedAppName(class, title) ==
    IF class.run = "success" /\ Trim(class.stdout) # "" THEN ListedClassName(Trim(class.stdout))
    ELSE Cased(TitleWord(title))

RECURSIVE SearchedWindows(_, _)
\* the loop of get_windows_xdotool_filtered over the identifiers
SearchedWindows(ids, acc) ==
    IF ids = <<>> THEN Parse(acc)
    ELSE LET w == Head(ids)
             title == Trim(w.name.stdout)
         IN  IF w.name.run # "success" \/ title = "" \/ title = "N/A" \/ ByteLen(title) < 3
             THEN SearchedWindows(Tail(ids), acc)
             ELSE IF SearchedAppName(w.class, title).panic THEN ParsePanic
             ELSE IF should_include_window(title, SearchedAppName(w.class, title).text)
             THEN SearchedWindows(Tail(ids),
                      acc \o <<OpenWindow(w.id, title, SearchedAppName(w.class, title).text)>>)
             ELSE SearchedWindows(Tail(ids), acc)

\* WindowSwitcher::get_windows_xdotool_filtered
get_windows_xdotool_filtered(output) ==
    IF output.run # "success" THEN ParseErr
    ELSE SearchedWindows(Take(output.ids, id_limit), <<>>)

Searched(id, name, class) == [id |-> id, name |-> name, class |-> class]

XdotoolOutputs ==
    {[run |-> "absent", ids |-> <<>>], [run |-> "failed", ids |-> <<>>],
     [run |-> "success",
      ids |-> <<Searched("4194311", Output("success", "Fox Notes "), Output("success", "kitty")),
                Searched("4194313", Output("success", "Main Menu"), Output("failed", "")),
                Searched("4194315", Output("failed", ""), Output("success", "kitty")),
                Searched("4194317", Output("success", "N/A"), Output("success", "kitty"))>>],
     [run |-> "success",
      ids |-> <<Searched("4194319", Output("success", "Texte"), Output("success", "éditeur"))>>]}

RawEnvs == [gdbus : GdbusOutputs, wmctrl : WmctrlOutputs, xdotool : XdotoolOutputs]

\* what a backend's parse is to get_open_windows
AsBackend(run, parse) ==
    IF run = "absent" THEN Absent ELSE IF parse.ok THEN Listed(parse.windows) ELSE Failed

\* the three backends as get_open_windows sees them, from the parses of the
\* extension's and of wmctrl's answer; a backend that is not asked is not parsed
Backends(raw, calls, listed) ==
    LET first == [window_calls |-> AsBackend("", calls),
                  wmctrl |-> AsBackend(raw.wmctrl.run, listed),
                  xdotool |-> IF raw.xdotool.run = "absent" THEN Absent ELSE Failed]
    IN  IF "xdotool" \in Range(BackendsAsked(first))
        THEN [first EXCEPT !.xdotool = AsBackend(raw.xdotool.run,
                                                 get_windows_xdotool_filtered(raw.xdotool))]
        ELSE first

\* a parse that get_open_windows runs on raw panics
Panics(raw, calls, listed, env) ==
    \/ calls.panic
    \/ raw.wmctrl.run # "absent" /\ listed.panic
    \/ /\ "xdotool" \in Range(BackendsAsked(env))
       /\ get_windows_xdotool_filtered(raw.xdotool).panic

\* what get_open_windows does on the raw answers of the tools
Enumerated(raw, panic, r) ==
    [kind |-> "parsed", query |-> "", out |-> IF panic THEN <<>> ELSE r.windows,
     again |-> FALSE, ok |-> ~panic /\ r.ok, panic |-> panic, env |-> raw]

\* get_open_windows on the raw answers of the tools
EnumerateRaw(raw) ==
    /\ \E calls \in {get_windows_via_window_calls(raw.gdbus)} :
       \E listed \in {get_windows_wmctrl_filtered(raw.wmctrl)} :
       \E env \in {Backends(raw, calls, listed)} :
       \E panic \in {Panics(raw, calls, listed, env)} :
           found' = Enumerated(raw, panic, get_open_windows(env))
    /\ event' = "parsed"
    /\ WaitFrame

NextParse == \E raw \in RawEnvs : EnumerateRaw(raw)

ParseSpec == InitSwitch /\ [][NextParse]_vars

\* C33: the enumeration of the open windows returns Ok or Err, without a
\* panic, on every text the tools print: a ']' before the first '[', invalid
\* JSON, lines of too few fields, class names that are empty or start with a
\* character of several bytes.
C33_NeverPanics == found.kind = "parsed" => ~found.panic

\* the extension prints a ']' two or more bytes before its first '[': the
\* slice from '[' to ']' panics
C33_PanicOnBracketOrder ==
    /\ found.kind = "parsed"
    /\ found.env.gdbus = Output("success", "] error [")
    /\ found.panic

\* without a class name of several-byte first character and without a ']'
\* before the '[', the malformed entries are skipped and the others are kept
MalformedSkipped ==
    (/\ found.kind = "parsed"
     /\ found.env.gdbus = Output("success", "('" \o JsonTwo \o "',)")
     /\ found.env.wmctrl = Listing("success", <<LineHidden, LinePanel, LineTiny>>, {}))
    => /\ ~found.panic /\ found.ok
       /\ found.out = <<OpenWindow("7", "Fox Notes", "Fox"), OpenWindow("0x03a00009", "host Plain", "")>>

\* C34: execute_selected with an index past the displayed results fails and
\* invokes no collaborator; a launch, switch, typing, URL or terminal that
\* failed is returned as Err; the Enter key closes the launcher window only
\* when execute_selected returned Ok.
C34_FailureIsReturned ==
    found.kind = "activate" =>
        /\ (found.called /\ found.index >= Len(displayed_results))
               => ~found.ok /\ found.out = <<>>
        /\ (found.called /\ found.out # <<>> /\ ~found.served) => ~found.ok
        /\ (event = "activate" /\ launcher_window = "closed") => found.called /\ found.ok

\* Enter on an emoji: xdotool type ran and exited with a failure, and
\* execute_selected returned Ok and the window was closed
C34_FailedTypingClosesWindow ==
    /\ event = "activate" /\ found.kind = "activate" /\ current_mode = "Emoji"
    /\ found.called /\ found.out = <<"xdotool type">> /\ ~found.served
    /\ found.ok /\ launcher_window = "closed"

\* an Err of execute_selected leaves the window open on the Enter path, and
\* an index past the displayed results invokes nothing
ErrKeepsWindowOpen ==
    (event = "activate" /\ found.kind = "activate" /\ found.called)
    => /\ ~found.ok => launcher_window = "open"
       /\ found.index >= Len(displayed_results) => ~found.ok /\ found.out = <<>>

\* C35: when the extension and wmctrl both return windows, the merged list is
\* the extension's windows in their order, then the wmctrl windows, in their
\* order, whose (title, application name) is that of no extension window.
C35_MergedByTitleAndApp ==
    (/\ found.kind = "enumerate"
     /\ found.env.window_calls.kind = "ok" /\ found.env.window_calls.windows # <<>>
     /\ found.env.wmctrl.kind = "ok" /\ found.env.wmctrl.windows # <<>>)
    => LET calls == found.env.window_calls.windows
           keys == {<<calls[i].title, calls[i].app_name>> : i \in 1..Len(calls)}
       IN  /\ found.ok
           /\ found.out = calls \o SelectSeq(found.env.wmctrl.windows,
                                            LAMBDA w : <<w.title, w.app_name>> \notin keys)

\* the extension lists Files and Firefox, wmctrl lists Firefox, a terminal and
\* a second Firefox window of the same title: both Firefox windows of wmctrl
\* are dropped and the terminal is appended
C35_SharedWindowDropped ==
    /\ found.kind = "enumerate"
    /\ found.env.window_calls = Listed(<<WinFiles, WinFirefox>>)
    /\ found.env.wmctrl = Listed(<<WinFirefox, WinKitty, WinFirefox2>>)
    /\ found.out = <<WinFiles, WinFirefox, WinKitty>>

\* two wmctrl windows of one key that no extension window has are both kept
C35_TwinsKept ==
    /\ found.kind = "enumerate"
    /\ found.env.window_calls = Listed(<<WinFiles>>)
    /\ found.out = <<WinFiles, WinFirefox, WinKitty, WinFirefox2>>

\* C36: every window get_open_windows returns, whichever backend listed it,
\* passes the visibility filter: its trimmed title is at least 3 bytes long,
\* and neither its lowercased title nor its lowercased application name
\* contains a pattern of the denylist.
C36_ReturnedWindowsVisible ==
    (found.kind = "parsed" /\ ~found.panic)
    => \A i \in 1..Len(found.out) :
           /\ ByteLen(Trim(found.out[i].title)) >= 3
           /\ \A k \in 1..Len(skip_patterns) :
                  /\ ~Contains(ToLowercase(found.out[i].title), skip_patterns[k])
                  /\ ~Contains(ToLowercase(found.out[i].app_name), skip_patterns[k])

\* the extension lists a dock and a window of a two-letter title, wmctrl a
\* panel and a window of a two-letter title: only the one other window of
\* wmctrl is returned
C36_ChromeFilteredOut ==
    /\ found.kind = "parsed" /\ ~found.panic /\ found.ok
    /\ found.env.gdbus = Output("success", "('" \o JsonChrome \o "',)")
    /\ found.env.wmctrl = Listing("success", <<LineHidden, LinePanel, LineTiny>>, {})
    /\ found.out = <<OpenWindow("0x03a00009", "host Plain", "")>>

\* xdotool is the only backend that lists windows: the menu and the window
\* without a name are left out
C36_MenuOfXdotoolFilteredOut ==
    /\ found.kind = "parsed" /\ ~found.panic /\ found.ok
    /\ found.env.gdbus.run = "failed" /\ found.env.wmctrl.run = "absent"
    /\ found.out = <<OpenWindow("4194311", "Fox Notes", "Kitty")>>

\* the kinds of the candidates of a result list
Kinds(res) == {res[i].kind : i \in 1..Len(res)}

\* one SearchQuery candidate of one of the engines
OneQuery(res, engines) ==
    Len(res) = 1 /\ res[1].kind = "SearchQuery" /\ res[1].engine \in engines

\* C37: after every update_query the results agree with the mode: one
\* CalculatorResult in Calculator, one TerminalCommand in Terminal, one
\* SearchQuery of youtube, chatgpt or google in Search, at most 20 Emoji in
\* Emoji, OpenWindow candidates or one error/info SearchQuery in WindowSwitch,
\* and in Apps at most 20 App candidates, or the one Settings entry, or the
\* three SearchQuery fallbacks.
C37_ResultsMatchMode ==
    CASE current_mode = "Calculator" -> Len(results) = 1 /\ Kinds(results) = {"CalculatorResult"}
      [] current_mode = "Terminal" -> Len(results) = 1 /\ Kinds(results) = {"TerminalCommand"}
      [] current_mode = "Search" -> OneQuery(results, {"youtube", "chatgpt", "google"})
      [] current_mode = "Emoji" -> Kinds(results) \subseteq {"Emoji"} /\ Len(results) <= 20
      [] current_mode = "WindowSwitch" ->
             \/ Kinds(results) \subseteq {"OpenWindow"}
             \/ OneQuery(results, {"error", "info"})
      [] current_mode = "Apps" ->
             \/ Kinds(results) \subseteq {"App"} /\ Len(results) <= 20
             \/ results = <<SettingsItem>>
             \/ /\ Len(results) = 3 /\ Kinds(results) = {"SearchQuery"}
                /\ {results[i].engine : i \in 1..3} = {"youtube", "google", "chatgpt"}
      [] OTHER -> FALSE

\* "settings" was typed: the mode is Apps and the one result is the Settings
\* entry
C37_SettingsAfterCalculation ==
    /\ event = "changed" /\ query = "settings"
    /\ current_mode = "Apps" /\ results = <<SettingsItem>>

\* C38: in mode WindowSwitch the synthetic error or info candidate is shown
\* only when the cache is still empty after the update; with a cache that is
\* not empty every result is an OpenWindow of the cache, so a sub-query that
\* matches no cached window gives an empty list.
C38_SyntheticOnlyOnEmptyCache ==
    current_mode = "WindowSwitch" =>
        /\ OneQuery(results, {"error", "info"}) => open_windows = <<>>
        /\ open_windows # <<>> =>
               \A i \in 1..Len(results) :
                   /\ results[i].kind = "OpenWindow"
                   /\ \E k \in 1..Len(open_windows) : results[i].window = open_windows[k]

\* a sub-query that matches none of the cached windows: no result at all
C38_NoMatchInCache ==
    /\ event = "changed" /\ current_mode = "WindowSwitch"
    /\ open_windows # <<>> /\ results = <<>>

\* C39: the landing of the background load changes only the application
\* collection: the mode, the results, the displayed results, the selection and
\* the cached windows stay as they were, so what is displayed is not refreshed.
C39_LoadChangesOnlyCollection ==
    [][event' = "loaded" =>
          UNCHANGED <<current_mode, results, displayed_results, selected_index,
                      open_windows>>]_vars

\* the load landed while a cell after the first was selected in the emoji grid:
\* the grid and the selection are as before, over a collection that is no
\* longer empty
C39_LandedDuringEmoji ==
    /\ event = "loaded" /\ app_launcher # <<>>
    /\ current_mode = "Emoji" /\ selected_index > 0 /\ displayed_results # <<>>

\* the load landed on the empty query: no application is displayed although the
\* collection is loaded
C39_NothingShownAfterLoad ==
    /\ event = "loaded" /\ app_launcher # <<>>
    /\ current_mode = "Apps" /\ query = "" /\ results = <<>> /\ displayed_results = <<>>

\* C40: in the emoji grid of n > 0 cells and 8 columns, Down selects
\* min(i + 8, n - 1) and Up max(i - 8, 0); Right selects i + 1 clamped to
\* n - 1, but from the last column the first cell of the next row when there
\* is one and else stays; Left selects i - 1, but from the first column the
\* last cell of the row above when there is one and else stays.  In list
\* mode the arrow keys leave selected_index alone.
C40_ArrowKeysMoveInGrid ==
    [][LET i == selected_index
           n == Len(displayed_results)
           row == i \div 8
           col == i % 8
       IN  /\ (current_mode = "Emoji" /\ n > 0) =>
                  /\ event' = "down" => selected_index' = Min(i + 8, n - 1)
                  /\ event' = "up" => selected_index' = Max(i - 8, 0)
                  /\ event' = "right" =>
                         selected_index' = IF col = 7
                                           THEN IF (row + 1) * 8 <= n - 1 THEN (row + 1) * 8 ELSE i
                                           ELSE Min(i + 1, n - 1)
                  /\ event' = "left" =>
                         selected_index' = IF col = 0
                                           THEN IF row > 0 THEN row * 8 - 1 ELSE i
                                           ELSE i - 1
           /\ (current_mode # "Emoji" /\ event' \in {"down", "up", "right", "left"}) =>
                  selected_index' = i]_vars

\* Left from the first cell of the second row of a grid of 20: the last cell of
\* the first row is selected
C40_WrappedToRowAbove ==
    /\ event = "left" /\ current_mode = "Emoji" /\ Len(displayed_results) = 20
    /\ selected_index = 7

\* Down in the list moved the selected row and not selected_index
C40_ListKeepsIndex ==
    /\ event = "down" /\ current_mode = "Apps" /\ selected_row = Some(1)
    /\ selected_index = 0

\* Right in a grid of one full row ended in its last cell: there is no next
\* row, and the selection stays there
C40_StaysInLastColumn ==
    /\ event = "right" /\ current_mode = "Emoji" /\ Len(displayed_results) = 8
    /\ selected_index = 7
====
